-------------------------- MODULE GridV2LiveProofs ---------------------------
(***************************************************************************)
(* What the live path books.  Two arguments: client order ids are drawn    *)
(* once, so a registration that is gone never comes back within a life of  *)
(* the process; and an absence is taken for a fill only of an order that   *)
(* is registered, was on the exchange, and was not cancelled by us.        *)
(***************************************************************************)
EXTENDS GridV2Live, FiniteSetTheorems, SequenceTheorems, TLAPS

Cid == {"e", "x"} \X Nat

\* The ids drawn so far in the registry's two sequences.
DrawnEntries == {EntryCid(n) : n \in 0..(entrySeq - 1)}
DrawnExits == {ExitCid(n) : n \in 0..(exitSeq - 1)}
Drawn == DrawnEntries \cup DrawnExits

-----------------------------------------------------------------------------
\* The operators of the bridge.

LEMMA MapDomains ==
  /\ \A f, g : DOMAIN Merged(f, g) = DOMAIN f \cup DOMAIN g
  /\ \A f, S : DOMAIN Minus(f, S) = DOMAIN f \ S
  /\ \A f, S : DOMAIN Only(f, S) = DOMAIN f \cap S
  /\ \A f, i : DOMAIN Without(f, i) = DOMAIN f \ {i}
  /\ \A f, i, v : DOMAIN With(f, i, v) = DOMAIN f \cup {i}
  /\ DOMAIN <<>> = {}
<1>1. \A f, g : DOMAIN Merged(f, g) = DOMAIN f \cup DOMAIN g
  BY DEF Merged
<1>2. \A f, S : DOMAIN Minus(f, S) = DOMAIN f \ S
  BY DEF Minus, Restrict
<1>3. \A f, S : DOMAIN Only(f, S) = DOMAIN f \cap S
  BY DEF Only, Restrict
<1>4. \A f, i : DOMAIN Without(f, i) = DOMAIN f \ {i}
  BY DEF Without
<1>5. \A f, i, v : DOMAIN With(f, i, v) = DOMAIN f \cup {i}
  BY DEF With
<1>6. DOMAIN <<>> = {}
  OBVIOUS
<1> QED BY <1>1, <1>2, <1>3, <1>4, <1>5, <1>6

\* An entry's place in its list is less than the length of the list.
LEMMA ListedBound ==
  ASSUME NEW among, IsFiniteSet(among), NEW entry \in among
  PROVE  Listed(entry, among) \in Nat /\ Cardinality(among) \in Nat /\ Listed(entry, among) < Cardinality(among)
<1> DEFINE before == {other \in among \ {entry} :
                        \/ other[1] = "BUY" /\ entry[1] = "SELL"
                        \/ other[1] = entry[1] /\ Outward(entry[1]) * (entry[2] - other[2]) > 0}
<1>1. before \subseteq among \ {entry} /\ Listed(entry, among) = Cardinality(before)
  BY DEF Listed
<1> HIDE DEF before
<1>2. IsFiniteSet(among \ {entry}) /\ Cardinality(among \ {entry}) = Cardinality(among) - 1
  BY FS_RemoveElement
<1>3. IsFiniteSet(before) /\ Cardinality(before) <= Cardinality(among \ {entry})
  BY <1>1, <1>2, FS_Subset
<1>4. Cardinality(before) \in Nat /\ Cardinality(among) \in Nat
  BY <1>3, FS_CardinalityType
<1> QED BY <1>1, <1>2, <1>3, <1>4

\* A placement is registered under an id that was never drawn.
LEMMA FreshRegistrations ==
  ASSUME NEW reg, NEW among, IsFiniteSet(among), entrySeq \in Nat, entrySeq' = entrySeq + Cardinality(among)
  PROVE  DOMAIN Registrations(reg, among) \subseteq DrawnEntries' \ DrawnEntries
<1> SUFFICES ASSUME NEW c \in DOMAIN Registrations(reg, among) PROVE c \in DrawnEntries' /\ c \notin DrawnEntries
  OBVIOUS
<1>1. PICK e \in among : c = NewCid(e, among)
  BY DEF Registrations
<1>2. Listed(e, among) \in Nat /\ Cardinality(among) \in Nat /\ Listed(e, among) < Cardinality(among)
  BY ListedBound
<1> DEFINE n == entrySeq + Listed(e, among)
<1>3. n \in 0..(entrySeq' - 1) /\ n \notin 0..(entrySeq - 1) /\ c = EntryCid(n)
  BY <1>1, <1>2 DEF NewCid
<1> HIDE DEF n
<1> QED BY <1>3 DEF DrawnEntries, EntryCid

\* What a resolution registers was never drawn before, and what it asks to cancel is
\* not registered any more.
LEMMA ResolveForms ==
  ASSUME NEW entries, NEW exs, NEW staleE, NEW staleX, entrySeq \in Nat, exitSeq \in Nat,
         DOMAIN entries \subseteq DrawnEntries, DOMAIN exs \subseteq DrawnExits,
         IsFiniteSet(intents'.placeEntry),
         intents'.placeExit = {} \/ \E id : intents'.placeExit = {id},
         Resolve(entries, exs, staleE, staleX)
  PROVE  /\ entrySeq' \in Nat /\ exitSeq' \in Nat /\ entrySeq <= entrySeq' /\ exitSeq <= exitSeq'
         /\ \A c \in DOMAIN entryReg' : c \in DOMAIN entries \/ c \in DrawnEntries' \ DrawnEntries
         /\ \A c \in DOMAIN exitReg' : c \in DOMAIN exs \/ c \in DrawnExits' \ DrawnExits
         /\ \A r \in Requests(entries, exs) :
              /\ r.cid \in Drawn'
              /\ r.op = "cancel" => r.cid \notin ActiveCids'
<1> DEFINE gone == CancelledEntries(entries)
           left == Minus(entries, gone)
           new == Registrations(left, intents'.placeEntry)
           goneX == CancelledExits \cap DOMAIN exs
<1>1. gone \subseteq DOMAIN entries
  BY DEF CancelledEntries
<1>2. DOMAIN left = DOMAIN entries \ gone
  BY MapDomains
<1>3. /\ entrySeq' = entrySeq + Cardinality(intents'.placeEntry) /\ Cardinality(intents'.placeEntry) \in Nat
      /\ entrySeq' \in Nat /\ entrySeq <= entrySeq'
  BY FS_CardinalityType DEF Resolve
<1>4. DOMAIN new \subseteq DrawnEntries' \ DrawnEntries
  BY <1>3, FreshRegistrations
<1>5. entryReg' = Merged(left, new)
  BY DEF Resolve
<1>6. DOMAIN entryReg' = (DOMAIN entries \ gone) \cup DOMAIN new
  <2> HIDE DEF left, new, gone
  <2>1. DOMAIN Merged(left, new) = DOMAIN left \cup DOMAIN new
    BY MapDomains
  <2> QED BY <1>2, <1>5, <2>1
<1>7. /\ exitSeq' = exitSeq + Cardinality(intents'.placeExit)
      /\ intents'.placeExit = {} => Cardinality(intents'.placeExit) = 0
      /\ intents'.placeExit # {} => Cardinality(intents'.placeExit) = 1
  BY FS_EmptySet, FS_Singleton DEF Resolve
<1>8. exitSeq' \in Nat /\ exitSeq <= exitSeq'
  BY <1>7
<1>9. intents'.placeExit # {} => ExitCid(exitSeq) \in DrawnExits' \ DrawnExits
  BY <1>7 DEF DrawnExits, ExitCid
<1> DEFINE newX == [c \in {ExitCid(exitSeq) : id \in intents'.placeExit} |-> CHOOSE id \in intents'.placeExit : TRUE]
<1>10. exitReg' = Merged(Minus(exs, goneX), newX)
  BY DEF Resolve
<1>11. DOMAIN exitReg' = (DOMAIN exs \ goneX) \cup {ExitCid(exitSeq) : id \in intents'.placeExit}
  <2>1. DOMAIN newX = {ExitCid(exitSeq) : id \in intents'.placeExit}
    OBVIOUS
  <2>2. DOMAIN Minus(exs, goneX) = DOMAIN exs \ goneX
    BY MapDomains
  <2> HIDE DEF newX, goneX
  <2>3. DOMAIN Merged(Minus(exs, goneX), newX) = DOMAIN Minus(exs, goneX) \cup DOMAIN newX
    BY MapDomains
  <2> QED BY <1>10, <2>1, <2>2, <2>3
<1>12. \A c \in DOMAIN exitReg' : c \in DOMAIN exs \ goneX \/ c \in DrawnExits' \ DrawnExits
  BY <1>9, <1>11
<1>13. DrawnEntries \subseteq DrawnEntries' /\ DrawnExits \subseteq DrawnExits'
  BY <1>3, <1>8 DEF DrawnEntries, DrawnExits
<1>14. DrawnEntries' \cap DrawnExits' = {}
  BY DEF DrawnEntries, DrawnExits, EntryCid, ExitCid
<1>15. Requests(entries, exs) =
         {CancelRequest(c) : c \in gone \cup goneX}
           \cup {EntryRequest(c, new[c], PlacementKind) : c \in DOMAIN new}
           \cup {ExitRequest(ExitCid(exitSeq), openLots'[id], exits'[id]) : id \in intents'.placeExit}
  BY DEF Requests
<1> HIDE DEF gone, left, new, goneX
<1>16. \A c \in gone \cup goneX : c \in Drawn' /\ c \notin ActiveCids'
  <2> goneX \subseteq DOMAIN exs
    BY DEF goneX
  <2>1. ASSUME NEW c \in gone PROVE c \in Drawn' /\ c \notin ActiveCids'
    <3>1. c \in DrawnEntries /\ c \in DrawnEntries' /\ c \notin DrawnExits'
      BY <1>1, <1>13, <1>14
    <3>2. c \notin DOMAIN entryReg' /\ c \notin DOMAIN exitReg'
      BY <1>4, <1>6, <1>12, <1>13, <3>1
    <3> QED BY <3>1, <3>2 DEF Drawn, ActiveCids
  <2>2. ASSUME NEW c \in goneX PROVE c \in Drawn' /\ c \notin ActiveCids'
    <3>1. c \in DrawnExits /\ c \in DrawnExits' /\ c \notin DrawnEntries'
      BY <1>13, <1>14
    <3>2. c \notin DOMAIN exitReg' /\ c \notin DOMAIN entryReg'
      BY <1>1, <1>4, <1>6, <1>12, <1>13, <3>1
    <3> QED BY <3>1, <3>2 DEF Drawn, ActiveCids
  <2> QED BY <2>1, <2>2
<1>17. ASSUME NEW r \in Requests(entries, exs)
       PROVE  r.cid \in Drawn' /\ (r.op = "cancel" => r.cid \notin ActiveCids')
  <2>1. CASE r \in {CancelRequest(c) : c \in gone \cup goneX}
    BY <1>16, <2>1 DEF CancelRequest
  <2>2. CASE r \in {EntryRequest(c, new[c], PlacementKind) : c \in DOMAIN new}
    <3>1. PICK c \in DOMAIN new : r = EntryRequest(c, new[c], PlacementKind)
      BY <2>2
    <3>2. PlacementKind # "cancel"
      BY DEF PlacementKind
    <3>3. r.cid = c /\ r.op # "cancel"
      BY <3>1, <3>2 DEF EntryRequest
    <3> QED BY <1>4, <3>3 DEF Drawn
  <2>3. CASE r \in {ExitRequest(ExitCid(exitSeq), openLots'[id], exits'[id]) : id \in intents'.placeExit}
    <3>1. r.cid = ExitCid(exitSeq) /\ r.op = "exit" /\ intents'.placeExit # {}
      BY <2>3 DEF ExitRequest
    <3> QED BY <1>9, <3>1 DEF Drawn
  <2> QED BY <1>15, <2>1, <2>2, <2>3
<1> QED BY <1>3, <1>4, <1>6, <1>8, <1>12, <1>17

-----------------------------------------------------------------------------
\* The machine's intents: finitely many placements, at most one exit.

LEMMA OneSideFinite ==
  ASSUME NEW side, NEW S, IsFiniteSet(S) PROVE IsFiniteSet(EntriesAt(side, S))
<1>1. IsFiniteSet({side})
  BY FS_Singleton
<1> QED BY <1>1, FS_Product DEF EntriesAt

LEMMA WindowFinite ==
  ASSUME NEW reference PROVE IsFiniteSet(AllEntries(BuildWindow(reference)))
<1>1. IsFiniteSet(1..LevelsPerSide)
  BY ConfigAssumption, FS_Interval
<1>2. ASSUME NEW side \in OrderSide PROVE IsFiniteSet(EntriesAt(side, BuildWindow(reference)[side]))
  <2> DEFINE f == [i \in 1..LevelsPerSide |-> reference + Outward(side) * GridStep(reference) * i]
             prices == BuildWindow(reference)[side]
  <2>1. prices = {f[i] : i \in 1..LevelsPerSide}
    BY <1>2 DEF BuildWindow
  <2>2. f \in Surjection(1..LevelsPerSide, prices)
    BY <2>1 DEF Surjection
  <2>3. IsFiniteSet(prices)
    <3> HIDE DEF f, prices
    <3> QED BY <1>1, <2>2, FS_Surjection
  <2> QED BY <2>3, OneSideFinite
<1>3. AllEntries(BuildWindow(reference))
        = EntriesAt("BUY", BuildWindow(reference)["BUY"]) \cup EntriesAt("SELL", BuildWindow(reference)["SELL"])
  BY DEF AllEntries, OrderSide
<1> QED BY <1>2, <1>3, FS_Union DEF OrderSide

FewIntents ==
  /\ IsFiniteSet(intents'.placeEntry)
  /\ intents'.placeExit = {} \/ \E id : intents'.placeExit = {id}

LEMMA RollPlacesOne ==
  ASSUME NEW side, NEW price PROVE IsFiniteSet(Roll(side, price).placed)
<1>1. Roll(side, price).placed = {} \/ \E level : Roll(side, price).placed = {level}
  BY DEF Roll
<1> QED BY <1>1, FS_EmptySet, FS_Singleton

LEMMA EntryIntents ==
  ASSUME NEW id, NEW side, NEW price, NEW qty, ExecuteEntry(id, side, price, qty) \/ ExecuteNetoff(id, side, price, qty)
  PROVE  FewIntents
<1>1. IsFiniteSet(EntriesAt(side, Roll(side, price).placed))
  BY RollPlacesOne, OneSideFinite
<1>2. CASE ExecuteEntry(id, side, price, qty)
  <2>1. intents'.placeEntry = EntriesAt(side, Roll(side, price).placed) /\ intents'.placeExit = {id}
    BY <1>2 DEF ExecuteEntry, NoIntents
  <2> QED BY <1>1, <2>1 DEF FewIntents
<1>3. CASE ExecuteNetoff(id, side, price, qty)
  <2>1. intents'.placeEntry = EntriesAt(side, Roll(side, price).placed) /\ intents'.placeExit = {}
    BY <1>3 DEF ExecuteNetoff, NoIntents
  <2> QED BY <1>1, <2>1 DEF FewIntents
<1> QED BY <1>2, <1>3

LEMMA ExitIntents ==
  ASSUME NEW exitId, NEW lotId, NEW qty, NEW ts, ExecuteExit(exitId, lotId, qty, ts)
  PROVE  FewIntents
<1>1. CASE FlatReseed(lotId, ts)
  <2>1. intents'.placeEntry = AllEntries(BuildWindow(ref)) /\ intents'.placeExit = {}
    BY <1>1 DEF FlatReseed, ReplaceWindow, NoIntents
  <2> QED BY <2>1, WindowFinite DEF FewIntents
<1>2. CASE Resymmetrize(lotId, ts)
  <2>1. intents'.placeEntry = AllEntries(BuildWindow(ref)) \ AllEntries(window) /\ intents'.placeExit = {}
    BY <1>2 DEF Resymmetrize, NoIntents
  <2>2. IsFiniteSet(AllEntries(BuildWindow(ref)) \ AllEntries(window))
    BY WindowFinite, FS_Subset
  <2> QED BY <2>1, <2>2 DEF FewIntents
<1>3. CASE \E exitsAfter : RestoreEntry(lotId, ts, exitsAfter)
  <2>1. PICK exitsAfter : RestoreEntry(lotId, ts, exitsAfter)
    BY <1>3
  <2> DEFINE side == IF mode = "LONG" THEN "BUY" ELSE "SELL"
  <2>2. \A s, o : \E p : RestoredLevel(s, o) \subseteq {p}
    BY DEF RestoredLevel
  <2>3. \A s, o : \E p : ShiftedLevel(s, o) \subseteq {p}
    BY DEF ShiftedLevel
  <2>4. \A s, o : IsFiniteSet(RestoredLevel(s, o)) /\ IsFiniteSet(ShiftedLevel(s, o))
    <3> TAKE s, o
    <3>1. IsFiniteSet(RestoredLevel(s, o))
      <4>1. PICK p : RestoredLevel(s, o) \subseteq {p}
        BY <2>2
      <4> QED BY <4>1, FS_Singleton, FS_Subset
    <3>2. PICK p : ShiftedLevel(s, o) \subseteq {p}
      BY <2>3
    <3>3. IsFiniteSet(ShiftedLevel(s, o))
      BY <3>2, FS_Singleton, FS_Subset
    <3> QED BY <3>1, <3>3
  <2>5. PICK placed : /\ intents'.placeEntry = EntriesAt(side, placed) /\ intents'.placeExit = {}
                      /\ \/ placed = {} \/ \E o : placed = RestoredLevel(side, o) \/ placed = ShiftedLevel(side, o)
    BY <2>1 DEF RestoreEntry, NoIntents
  <2>6. IsFiniteSet(placed)
    BY <2>4, <2>5, FS_EmptySet
  <2> QED BY <2>5, <2>6, OneSideFinite DEF FewIntents
<1> QED BY <1>1, <1>2, <1>3 DEF ExecuteExit

-----------------------------------------------------------------------------
\* Client order ids over a step of the registry.

RegistryDrawn ==
  /\ entrySeq \in Nat /\ exitSeq \in Nat
  /\ DOMAIN entryReg \subseteq DrawnEntries /\ DOMAIN exitReg \subseteq DrawnExits

\* A step after which an id drawn before and gone is still gone.
NoneComesBack ==
  /\ RegistryDrawn'
  /\ entrySeq <= entrySeq' /\ exitSeq <= exitSeq'
  /\ ActiveCids' \cap Drawn \subseteq ActiveCids

LEMMA LongerSequences ==
  ASSUME entrySeq \in Nat, exitSeq \in Nat, entrySeq' \in Nat, exitSeq' \in Nat,
         entrySeq <= entrySeq', exitSeq <= exitSeq'
  PROVE  DrawnEntries \subseteq DrawnEntries' /\ DrawnExits \subseteq DrawnExits' /\ Drawn \subseteq Drawn'
<1>1. 0..(entrySeq - 1) \subseteq 0..(entrySeq' - 1) /\ 0..(exitSeq - 1) \subseteq 0..(exitSeq' - 1)
  <2>1. \A a, b \in Nat : a <= b => 0..(a - 1) \subseteq 0..(b - 1)
    OBVIOUS
  <2> QED BY <2>1
<1>2. DrawnEntries \subseteq DrawnEntries'
  BY <1>1 DEF DrawnEntries
<1>3. DrawnExits \subseteq DrawnExits'
  BY <1>1 DEF DrawnExits
<1> QED BY <1>2, <1>3 DEF Drawn

LEMMA DrawnGrows ==
  ASSUME RegistryDrawn, NoneComesBack
  PROVE  /\ DrawnEntries \subseteq DrawnEntries' /\ DrawnExits \subseteq DrawnExits' /\ Drawn \subseteq Drawn'
         /\ ActiveCids \subseteq Drawn /\ ActiveCids' \subseteq Drawn'
<1>1. DrawnEntries \subseteq DrawnEntries' /\ DrawnExits \subseteq DrawnExits' /\ Drawn \subseteq Drawn'
  BY LongerSequences DEF RegistryDrawn, NoneComesBack
<1>2. ActiveCids \subseteq Drawn
  BY DEF RegistryDrawn, ActiveCids, Drawn
<1>3. ActiveCids' \subseteq Drawn'
  BY DEF NoneComesBack, RegistryDrawn, ActiveCids, Drawn
<1> QED BY <1>1, <1>2, <1>3

LEMMA DrawnKinds ==
  /\ \A c \in DrawnEntries : IsEntry(c) /\ ~IsExit(c)
  /\ \A c \in DrawnExits : IsExit(c) /\ ~IsEntry(c)
BY DEF DrawnEntries, DrawnExits, EntryCid, ExitCid, IsEntry, IsExit

LEMMA UntouchedRegistry ==
  ASSUME RegistryDrawn, UNCHANGED registry
  PROVE  NoneComesBack /\ ActiveCids' = ActiveCids
BY DEF RegistryDrawn, registry, NoneComesBack, DrawnEntries, DrawnExits, Drawn, ActiveCids

LEMMA DroppedCid ==
  ASSUME NEW cid, RegistryDrawn, DropCid(cid)
  PROVE  NoneComesBack /\ ActiveCids' = ActiveCids \ {cid}
<1>1. DOMAIN entryReg' = DOMAIN entryReg \ {cid} /\ DOMAIN exitReg' = DOMAIN exitReg \ {cid}
  BY MapDomains DEF DropCid
<1>2. entrySeq' = entrySeq /\ exitSeq' = exitSeq
  BY DEF DropCid
<1> QED BY <1>1, <1>2 DEF RegistryDrawn, NoneComesBack, DrawnEntries, DrawnExits, Drawn, ActiveCids

\* The requests that are still to be sent.
Asked == seeds \cup {item.req : item \in outbox}

LegalRequest(r) == r.cid \in Drawn /\ (r.op = "cancel" => r.cid \notin ActiveCids)

LEMMA LegalStaysLegal ==
  ASSUME RegistryDrawn, NoneComesBack, NEW r, LegalRequest(r)
  PROVE  LegalRequest(r)'
BY DrawnGrows DEF LegalRequest, NoneComesBack

\* A resolution registers, of the ids it is given, no more than those, and fresh ones.
LEMMA ResolvedRegistry ==
  ASSUME RegistryDrawn, NEW cid \in Drawn, NEW entries, NEW exs, NEW staleE, NEW staleX, FewIntents,
         DOMAIN entries \subseteq DOMAIN entryReg \ {cid}, DOMAIN exs \subseteq DOMAIN exitReg \ {cid},
         Resolve(entries, exs, staleE, staleX)
  PROVE  /\ NoneComesBack /\ cid \notin ActiveCids'
         /\ \A r \in Requests(entries, exs) : LegalRequest(r)'
<1>1. DOMAIN entries \subseteq DrawnEntries /\ DOMAIN exs \subseteq DrawnExits
  BY DEF RegistryDrawn
<1>2. /\ entrySeq' \in Nat /\ exitSeq' \in Nat /\ entrySeq <= entrySeq' /\ exitSeq <= exitSeq'
      /\ \A c \in DOMAIN entryReg' : c \in DOMAIN entries \/ c \in DrawnEntries' \ DrawnEntries
      /\ \A c \in DOMAIN exitReg' : c \in DOMAIN exs \/ c \in DrawnExits' \ DrawnExits
      /\ \A r \in Requests(entries, exs) : r.cid \in Drawn' /\ (r.op = "cancel" => r.cid \notin ActiveCids')
  BY <1>1, ResolveForms DEF FewIntents, RegistryDrawn
<1>3. DrawnEntries \subseteq DrawnEntries' /\ DrawnExits \subseteq DrawnExits'
  BY <1>2, LongerSequences DEF RegistryDrawn
<1>4. RegistryDrawn'
  BY <1>1, <1>2, <1>3 DEF RegistryDrawn
<1>5. DrawnEntries' \cap DrawnExits' = {}
  BY DEF DrawnEntries, DrawnExits, EntryCid, ExitCid
<1>6. \A c \in ActiveCids' : c \in Drawn => c \in DOMAIN entries \cup DOMAIN exs
  BY <1>2, <1>3, <1>4, <1>5 DEF RegistryDrawn, ActiveCids, Drawn
<1>7. NoneComesBack /\ cid \notin ActiveCids'
  BY <1>2, <1>4, <1>6 DEF NoneComesBack, ActiveCids
<1> QED BY <1>2, <1>7 DEF LegalRequest

LEMMA WavedRequests ==
  ASSUME NEW path, NEW requests, outbox' = outbox \cup Waved(path, requests)
  PROVE  \A r \in {item.req : item \in outbox'} : r \in {item.req : item \in outbox} \/ r \in requests
BY DEF Waved

\* A booked fill takes its id out of the registry.
LEMMA AcceptedFill ==
  ASSUME RegistryDrawn, NEW cid \in Drawn, NEW o, NEW path, AcceptFill(cid, o, path)
  PROVE  /\ NoneComesBack /\ cid \notin ActiveCids'
         /\ \A r \in {item.req : item \in outbox'} : r \in {item.req : item \in outbox} \/ LegalRequest(r)'
<1>0. /\ IsEntry(cid) => cid \notin DOMAIN exitReg
      /\ IsExit(cid) => cid \notin DOMAIN entryReg
  BY DrawnKinds DEF RegistryDrawn
<1>1. CASE IsEntry(cid) /\ AcceptEntryFill(cid, o.side, o.price, o.qty)
           /\ outbox' = outbox \cup Waved(path, EntryFillRequests(cid))
  <2> DEFINE entries == Without(entryReg, cid)
  <2>1. FewIntents
    BY <1>1, EntryIntents DEF AcceptEntryFill
  <2>2. Resolve(entries, exitReg, Without(staleEntries, cid), staleExits)
    BY <1>1 DEF AcceptEntryFill
  <2>3. EntryFillRequests(cid) = Requests(entries, exitReg)
    BY DEF EntryFillRequests
  <2>4. DOMAIN entries = DOMAIN entryReg \ {cid}
    BY MapDomains
  <2> HIDE DEF entries
  <2>5. DOMAIN entries \subseteq DOMAIN entryReg \ {cid} /\ DOMAIN exitReg \subseteq DOMAIN exitReg \ {cid}
    BY <1>0, <1>1, <2>4
  <2>6. /\ NoneComesBack /\ cid \notin ActiveCids'
        /\ \A r \in Requests(entries, exitReg) : LegalRequest(r)'
    BY <2>1, <2>2, <2>5, ResolvedRegistry
  <2>7. \A r \in {item.req : item \in outbox'} :
          r \in {item.req : item \in outbox} \/ r \in EntryFillRequests(cid)
    BY <1>1, WavedRequests
  <2> QED BY <2>3, <2>6, <2>7
<1>2. CASE IsExit(cid) /\ AcceptExitFill(cid, o.qty, 0)
           /\ outbox' = outbox \cup Waved(path, ExitFillRequests(cid))
  <2> DEFINE exs == Without(exitReg, cid)
  <2>1. FewIntents
    BY <1>2, ExitIntents DEF AcceptExitFill
  <2>2. Resolve(entryReg, exs, staleEntries, Without(staleExits, cid))
    BY <1>2 DEF AcceptExitFill
  <2>3. ExitFillRequests(cid) = Requests(entryReg, exs)
    BY DEF ExitFillRequests
  <2>4. DOMAIN exs = DOMAIN exitReg \ {cid}
    BY MapDomains
  <2> HIDE DEF exs
  <2>5. DOMAIN entryReg \subseteq DOMAIN entryReg \ {cid} /\ DOMAIN exs \subseteq DOMAIN exitReg \ {cid}
    BY <1>0, <1>2, <2>4
  <2>6. /\ NoneComesBack /\ cid \notin ActiveCids'
        /\ \A r \in Requests(entryReg, exs) : LegalRequest(r)'
    BY <2>1, <2>2, <2>5, ResolvedRegistry
  <2>7. \A r \in {item.req : item \in outbox'} :
          r \in {item.req : item \in outbox} \/ r \in ExitFillRequests(cid)
    BY <1>2, WavedRequests
  <2> QED BY <2>3, <2>6, <2>7
<1> QED BY <1>1, <1>2 DEF AcceptFill

-----------------------------------------------------------------------------
\* The ids in use: whatever the exchange, the requests, the stream and the bookings name
\* was drawn, and what was booked is registered no more.

FoundKnown == acct # NoAcct => acct.open \subseteq DOMAIN book
StreamKnown == stream \in Seq(DOMAIN book)

IdsInUse ==
  /\ RegistryDrawn
  /\ DOMAIN book \subseteq Drawn
  /\ \A r \in Asked : LegalRequest(r)
  /\ FoundKnown
  /\ StreamKnown
  /\ DOMAIN bookings \subseteq Drawn \ ActiveCids
  /\ ~started => outbox = {} /\ queue = {} /\ DOMAIN bookings = {}

\* The parts of it that a step with no new id keeps.
LEMMA IdsKept ==
  ASSUME IdsInUse, NoneComesBack, DOMAIN book' \subseteq Drawn',
         \A r \in Asked' : r \in Asked \/ LegalRequest(r)',
         DOMAIN bookings' \subseteq DOMAIN bookings, FoundKnown', StreamKnown',
         ~started' => outbox' = {} /\ queue' = {} /\ DOMAIN bookings' = {}
  PROVE  IdsInUse'
<1>1. RegistryDrawn /\ RegistryDrawn' /\ Drawn \subseteq Drawn'
  BY DrawnGrows DEF IdsInUse, NoneComesBack
<1>2. \A r \in Asked' : LegalRequest(r)'
  <2> SUFFICES ASSUME NEW r \in Asked', ~LegalRequest(r)' PROVE FALSE
    OBVIOUS
  <2>1. LegalRequest(r)
    BY DEF IdsInUse
  <2> QED BY <1>1, <2>1, LegalStaysLegal
<1>3. DOMAIN bookings' \subseteq Drawn' \ ActiveCids'
  BY <1>1 DEF IdsInUse, NoneComesBack
<1> QED BY <1>1, <1>2, <1>3 DEF IdsInUse

\* The exchange never loses an order, and tells of the orders it has.
LEMMA BookGrows ==
  ASSUME FoundKnown, StreamKnown, DOMAIN book \subseteq DOMAIN book', UNCHANGED <<acct, stream>>
  PROVE  FoundKnown' /\ StreamKnown'
<1>1. FoundKnown'
  BY DEF FoundKnown
<1>2. stream \in Seq(DOMAIN book')
  BY SeqMonotonic DEF StreamKnown
<1> QED BY <1>1, <1>2 DEF StreamKnown

LEMMA Notified ==
  ASSUME StreamKnown, NEW cid \in DOMAIN book, Notify(cid), DOMAIN book' = DOMAIN book
  PROVE  StreamKnown'
<1>1. stream' = stream \/ stream' = Append(stream, cid)
  BY DEF Notify
<1>2. stream \in Seq(DOMAIN book) /\ Append(stream, cid) \in Seq(DOMAIN book)
  BY AppendProperties DEF StreamKnown
<1> QED BY <1>1, <1>2 DEF StreamKnown

LEMMA NextEvent ==
  ASSUME StreamKnown, stream # <<>>
  PROVE  Head(stream) \in DOMAIN book /\ Tail(stream) \in Seq(DOMAIN book)
BY HeadTailProperties DEF StreamKnown

\* Nothing that matters to the ids moves.
LEMMA IdsStill ==
  ASSUME IdsInUse, UNCHANGED <<registry, book, acct, stream, seeds, started, bookings>>,
         outbox' \subseteq outbox, queue' \subseteq queue
  PROVE  IdsInUse'
<1>1. RegistryDrawn /\ NoneComesBack /\ ActiveCids' = ActiveCids /\ Drawn' = Drawn
  BY UntouchedRegistry DEF IdsInUse, registry, Drawn, DrawnEntries, DrawnExits
<1>2. FoundKnown' /\ StreamKnown'
  BY BookGrows DEF IdsInUse
<1>3. \A r \in Asked' : r \in Asked
  BY DEF Asked
<1>4. ~started' => outbox' = {} /\ queue' = {} /\ DOMAIN bookings' = {}
  BY DEF IdsInUse
<1>5. DOMAIN book' \subseteq Drawn' /\ DOMAIN bookings' \subseteq DOMAIN bookings
  BY <1>1 DEF IdsInUse
<1> QED BY <1>1, <1>2, <1>3, <1>4, <1>5, IdsKept

-----------------------------------------------------------------------------
\* A bridge that is built from the orders found.

CidsOf(orders) == {o.cid : o \in orders}

LEMMA StartedRegistry ==
  ASSUME RegistryDrawn, NEW orders, CidsOf(orders) \subseteq Drawn, NEW pos, NEW reference,
         Startup(orders, pos, reference)
  PROVE  /\ RegistryDrawn' /\ entrySeq <= entrySeq' /\ exitSeq <= exitSeq'
         /\ ActiveCids' \cap Drawn \subseteq CidsOf(orders)
         /\ \A r \in ProtectiveRequests : LegalRequest(r)'
<1> DEFINE entryCids == {o.cid : o \in {x \in orders : IsEntry(x.cid)}}
           exitCids == {o.cid : o \in {x \in orders : IsExit(x.cid)}}
<1>1. DOMAIN entryReg' = entryCids /\ entrySeq' = entrySeq
  BY DEF Startup
<1>2. entryCids \subseteq DrawnEntries /\ entryCids \subseteq CidsOf(orders)
  BY DrawnKinds DEF Drawn, CidsOf
<1>3. exitCids \subseteq DrawnExits /\ exitCids \subseteq CidsOf(orders)
  BY DrawnKinds DEF Drawn, CidsOf
<1>4. \/ F2Lot \in DOMAIN openLots' /\ DOMAIN exitReg' = {ExitCid(exitSeq)} /\ exitSeq' = exitSeq + 1
      \/ F2Lot \notin DOMAIN openLots' /\ DOMAIN exitReg' = exitCids /\ exitSeq' = exitSeq
  BY DEF Startup
<1>5. ProtectiveRequests # {} => F2Lot \in DOMAIN openLots'
  BY DEF ProtectiveRequests
<1>6. \A r \in ProtectiveRequests : r.cid = ExitCid(exitSeq) /\ r.op = "exit"
  BY DEF ProtectiveRequests, ExitRequest
<1> HIDE DEF entryCids, exitCids
<1>7. entrySeq' \in Nat /\ exitSeq' \in Nat /\ entrySeq <= entrySeq' /\ exitSeq <= exitSeq'
  BY <1>1, <1>4 DEF RegistryDrawn
<1>8. DrawnEntries \subseteq DrawnEntries' /\ DrawnExits \subseteq DrawnExits'
  BY <1>7, LongerSequences DEF RegistryDrawn
<1>9. exitSeq' = exitSeq + 1 => ExitCid(exitSeq) \in DrawnExits' /\ ExitCid(exitSeq) \notin Drawn
  <2> SUFFICES ASSUME exitSeq' = exitSeq + 1
               PROVE  ExitCid(exitSeq) \in DrawnExits' /\ ExitCid(exitSeq) \notin DrawnExits
                      /\ ExitCid(exitSeq) \notin DrawnEntries
    BY DEF Drawn
  <2>1. exitSeq \in 0..(exitSeq' - 1) /\ exitSeq \notin 0..(exitSeq - 1)
    BY DEF RegistryDrawn
  <2> QED BY <2>1 DEF DrawnExits, DrawnEntries, ExitCid, EntryCid
<1>10. RegistryDrawn'
  BY <1>1, <1>2, <1>3, <1>4, <1>7, <1>8, <1>9 DEF RegistryDrawn
<1>11. ActiveCids' \cap Drawn \subseteq CidsOf(orders)
  BY <1>1, <1>2, <1>3, <1>4, <1>9 DEF ActiveCids
<1>12. \A r \in ProtectiveRequests : LegalRequest(r)'
  BY <1>4, <1>5, <1>6, <1>9 DEF LegalRequest, Drawn
<1> QED BY <1>7, <1>10, <1>11, <1>12

LEMMA FlatRegistry ==
  ASSUME RegistryDrawn, NEW orders, CidsOf(orders) \subseteq Drawn, NEW reference, NEW ts,
         StartupFlat(orders, reference, ts)
  PROVE  /\ RegistryDrawn' /\ entrySeq <= entrySeq' /\ exitSeq <= exitSeq'
         /\ ActiveCids' \cap Drawn = {}
         /\ \A r \in SeedRequests(orders) : LegalRequest(r)'
<1> DEFINE among == AllEntries(window')
<1>1. among = AllEntries(BuildWindow(reference))
  BY DEF StartupFlat, SetSnapshot
<1>2. IsFiniteSet(among)
  BY <1>1, WindowFinite
<1>3. /\ entryReg' = Registrations(<<>>, among) /\ entrySeq' = entrySeq + Cardinality(among)
      /\ exitReg' = <<>> /\ exitSeq' = exitSeq
  BY DEF StartupFlat
<1> HIDE DEF among
<1>4. Cardinality(among) \in Nat
  BY <1>2, FS_CardinalityType
<1>5. entrySeq' \in Nat /\ exitSeq' \in Nat /\ entrySeq <= entrySeq' /\ exitSeq <= exitSeq'
  BY <1>3, <1>4 DEF RegistryDrawn
<1>6. DOMAIN entryReg' \subseteq DrawnEntries' \ DrawnEntries
  BY <1>2, <1>3, FreshRegistrations DEF RegistryDrawn
<1>7. DrawnEntries \subseteq DrawnEntries' /\ DrawnExits \subseteq DrawnExits'
  BY <1>5, LongerSequences DEF RegistryDrawn
<1>8. DOMAIN exitReg' = {}
  BY <1>3, MapDomains
<1>9. RegistryDrawn'
  BY <1>5, <1>6, <1>8 DEF RegistryDrawn
<1>10. DrawnEntries' \cap DrawnExits = {}
  BY DEF DrawnEntries, DrawnExits, EntryCid, ExitCid
<1>11. ActiveCids' \cap Drawn = {}
  BY <1>6, <1>8, <1>10 DEF ActiveCids, Drawn
<1>12. \A r \in SeedRequests(orders) :
         \/ r.cid \in CidsOf(orders)
         \/ r.op # "cancel" /\ r.cid \in DOMAIN entryReg'
  BY DEF SeedRequests, CancelRequest, EntryRequest, CidsOf
<1>13. \A r \in SeedRequests(orders) : LegalRequest(r)'
  BY <1>6, <1>7, <1>11, <1>12 DEF LegalRequest, Drawn
<1> QED BY <1>5, <1>9, <1>11, <1>13

-----------------------------------------------------------------------------
\* Every step keeps the ids in use.

LEMMA FoundCids == CidsOf(FoundOrders) = acct.open
<1>1. \A c : Order(c).cid = c
  BY DEF Order
<1>2. \A c : c \in CidsOf(FoundOrders) <=> \E d \in acct.open : c = Order(d).cid
  BY DEF CidsOf, FoundOrders
<1>3. \A c : c \in CidsOf(FoundOrders) <=> c \in acct.open
  BY <1>1, <1>2
<1>4. CidsOf(FoundOrders) \subseteq acct.open /\ acct.open \subseteq CidsOf(FoundOrders)
  BY <1>3
<1> QED BY <1>4

BootedRegistry ==
  /\ RegistryDrawn' /\ entrySeq <= entrySeq' /\ exitSeq <= exitSeq'
  /\ ActiveCids' \cap Drawn \subseteq ActiveCids \cup acct.open
  /\ \A r \in seeds' : (r \in seeds /\ UNCHANGED registry) \/ LegalRequest(r)'
  /\ eligible' = acct.open \/ UNCHANGED <<eligible, registry>>

LEMMA BootRegistry == ASSUME IdsInUse, Boot PROVE BootedRegistry
<1>0. RegistryDrawn /\ CidsOf(FoundOrders) \subseteq Drawn
  BY FoundCids DEF IdsInUse, FoundKnown, Boot
<1>1. ASSUME NEW reference, BootFlat(reference) PROVE BootedRegistry
  <2>1. StartupFlat(FoundOrders, reference, 0) /\ seeds' = SeedRequests(FoundOrders) /\ eligible' = acct.open
    BY <1>1, FoundCids DEF BootFlat, AwaitSeeds, SeedEligible, CidsOf
  <2> QED BY <1>0, <2>1, FlatRegistry DEF BootedRegistry
<1>2. ASSUME NEW reference, BootRestored(reference) PROVE BootedRegistry
  <2>1. Startup(FoundOrders, acct.pos, reference) /\ seeds' = ProtectiveRequests /\ eligible' = acct.open
    BY <1>2, FoundCids DEF BootRestored, AwaitSeeds, SeedEligible, CidsOf
  <2> QED BY <1>0, <2>1, FoundCids, StartedRegistry DEF BootedRegistry
<1>3. ASSUME BootFailed PROVE BootedRegistry
  <2>1. UNCHANGED <<registry, seeds, eligible>>
    BY <1>3 DEF BootFailed, StartupFailed
  <2>2. NoneComesBack
    BY <1>0, <2>1, UntouchedRegistry
  <2> QED BY <2>1, <2>2 DEF NoneComesBack, BootedRegistry
<1> QED BY <1>1, <1>2, <1>3 DEF Boot

LEMMA BootIds == ASSUME IdsInUse, Boot PROVE IdsInUse'
<1>1. BootedRegistry /\ RegistryDrawn
  BY BootRegistry DEF IdsInUse
<1>2. Drawn \subseteq Drawn'
  BY <1>1, LongerSequences DEF BootedRegistry, RegistryDrawn
<1>3. UNCHANGED <<book, stream, outbox, queue, acct, bookings>> /\ started' = TRUE /\ ~started
  BY DEF Boot, exchangeVars, history
<1>4. outbox = {} /\ DOMAIN bookings = {}
  BY <1>3 DEF IdsInUse
<1>5. FoundKnown' /\ StreamKnown'
  BY <1>3, BookGrows DEF IdsInUse
<1>6. \A r \in Asked' : LegalRequest(r)'
  <2> SUFFICES ASSUME NEW r \in seeds' PROVE LegalRequest(r)'
    BY <1>3, <1>4 DEF Asked
  <2>1. CASE LegalRequest(r)'
    BY <2>1
  <2>2. CASE r \in seeds /\ UNCHANGED registry
    <3>1. LegalRequest(r) /\ NoneComesBack
      BY <1>1, <2>2, UntouchedRegistry DEF IdsInUse, Asked
    <3> QED BY <1>1, <3>1, LegalStaysLegal
  <2> QED BY <1>1, <2>1, <2>2 DEF BootedRegistry
<1>7. DOMAIN book' \subseteq Drawn' /\ DOMAIN bookings' = {}
  BY <1>2, <1>3, <1>4 DEF IdsInUse
<1> QED BY <1>1, <1>3, <1>5, <1>6, <1>7 DEF IdsInUse, BootedRegistry

LEMMA BeginTickIds == ASSUME IdsInUse, BeginTick PROVE IdsInUse'
<1>1. UNCHANGED <<registry, book, stream, acct, started, bookings>>
  BY DEF BeginTick, bridgeVars, history
<1>2. RegistryDrawn /\ NoneComesBack /\ Drawn' = Drawn
  BY <1>1, UntouchedRegistry DEF IdsInUse, registry, Drawn, DrawnEntries, DrawnExits
<1>3. /\ outbox' = IF Active THEN Waved("seed", seeds) ELSE {}
      /\ seeds' = {} \/ seeds' = seeds
      /\ ~started => queue' = {}
  BY DEF BeginTick, Detecting, Active
<1>4. \A r \in Asked' : r \in Asked
  BY <1>3 DEF Asked, Waved
<1>5. FoundKnown' /\ StreamKnown'
  BY <1>1, BookGrows DEF IdsInUse
<1>6. ~started' => outbox' = {} /\ queue' = {} /\ DOMAIN bookings' = {}
  BY <1>1, <1>3 DEF IdsInUse, Active
<1>7. DOMAIN book' \subseteq Drawn' /\ DOMAIN bookings' \subseteq DOMAIN bookings
  BY <1>1, <1>2 DEF IdsInUse
<1> QED BY <1>2, <1>4, <1>5, <1>6, <1>7, IdsKept

\* What handling one fill does, polled or reported.
Handled(cid, o, path) ==
  \/ AcceptFill(cid, o, path) \/ RefuseFill(cid, o) \/ IgnoreFill(cid)
  \/ UNCHANGED <<registry, outbox, history>>
  \/ DropCid(cid) /\ UNCHANGED <<outbox, history>>

LEMMA HandledIds ==
  ASSUME IdsInUse, NEW cid \in Drawn, NEW o, NEW path, Handled(cid, o, path), started, started' = started,
         UNCHANGED <<book, acct, seeds>>, StreamKnown'
  PROVE  IdsInUse' /\ NoneComesBack
<1>0. FoundKnown'
  BY DEF IdsInUse, FoundKnown
<1>1. CASE AcceptFill(cid, o, path)
  <2>1. /\ RegistryDrawn /\ NoneComesBack /\ cid \notin ActiveCids'
        /\ \A r \in {item.req : item \in outbox'} : r \in {item.req : item \in outbox} \/ LegalRequest(r)'
    BY <1>1, AcceptedFill DEF IdsInUse
  <2>2. RegistryDrawn' /\ Drawn \subseteq Drawn'
    BY <2>1, DrawnGrows DEF NoneComesBack
  <2>3. \A r \in Asked' : r \in Asked \/ LegalRequest(r)'
    BY <2>1 DEF Asked
  <2>4. \A r \in Asked' : LegalRequest(r)'
    BY <2>1, <2>3, LegalStaysLegal DEF IdsInUse
  <2>5. DOMAIN bookings' = DOMAIN bookings \cup {cid}
    BY <1>1 DEF AcceptFill, Count
  <2>6. DOMAIN bookings' \subseteq Drawn' \ ActiveCids'
    BY <2>1, <2>2, <2>5 DEF IdsInUse, NoneComesBack
  <2>7. DOMAIN book' \subseteq Drawn'
    BY <2>2 DEF IdsInUse
  <2> QED BY <1>0, <2>1, <2>2, <2>4, <2>6, <2>7 DEF IdsInUse
<1>2. CASE ~AcceptFill(cid, o, path)
  <2>1. UNCHANGED <<registry, outbox, bookings>> \/ (DropCid(cid) /\ UNCHANGED <<outbox, bookings>>)
    BY <1>2 DEF Handled, RefuseFill, RejectEntryFill, RejectExitFill, IgnoreFill, history, bridgeVars
  <2>2. RegistryDrawn /\ NoneComesBack /\ UNCHANGED <<outbox, bookings, entrySeq, exitSeq>>
    BY <2>1, UntouchedRegistry, DroppedCid DEF IdsInUse, registry, DropCid
  <2>3. Drawn' = Drawn
    BY <2>2 DEF Drawn, DrawnEntries, DrawnExits
  <2>4. \A r \in Asked' : r \in Asked
    BY <2>2 DEF Asked
  <2>5. DOMAIN book' \subseteq Drawn' /\ DOMAIN bookings' \subseteq DOMAIN bookings
    BY <2>2, <2>3 DEF IdsInUse
  <2>6. IdsInUse'
    BY <1>0, <2>2, <2>4, <2>5, IdsKept
  <2> QED BY <2>2, <2>6
<1> QED BY <1>1, <1>2

LEMMA HandleFillIds == ASSUME IdsInUse, NEW cid \in queue, HandleFill(cid) PROVE IdsInUse' /\ NoneComesBack
<1>1. started /\ UNCHANGED <<started, book, stream, acct, seeds>>
  BY DEF IdsInUse, HandleFill, exchangeVars
<1>2. StreamKnown'
  BY <1>1 DEF IdsInUse, StreamKnown
<1>3. CASE cid \in ActiveCids
  <2>1. Handled(cid, InferredFill(cid), "poll")
    BY <1>3 DEF HandleFill, Handled
  <2>2. cid \in Drawn
    BY <1>3 DEF IdsInUse, RegistryDrawn, ActiveCids, Drawn
  <2> QED BY <1>1, <1>2, <2>1, <2>2, HandledIds
<1>4. CASE cid \notin ActiveCids
  <2>1. UNCHANGED <<registry, outbox, bookings>> /\ queue' \subseteq queue
    BY <1>4 DEF HandleFill, bridgeVars, history
  <2>2. NoneComesBack
    BY <2>1, UntouchedRegistry DEF IdsInUse
  <2> QED BY <1>1, <2>1, <2>2, IdsStill
<1> QED BY <1>3, <1>4

LEMMA EventHandled ==
  ASSUME UserDataEvent
  PROVE  /\ stream # <<>> /\ stream' = Tail(stream) /\ UNCHANGED <<book, acct, seeds, started, queue>>
         /\ Active => Handled(Head(stream), book[Head(stream)], "user")
         /\ ~Active => UNCHANGED <<registry, outbox, bookings, pendingPlaces, eligible>>
<1> DEFINE cid == Head(stream)
<1>1. UserFill(cid) \/ UserCancel(cid) \/ UserIgnored(cid)
  BY DEF UserDataEvent
<1>2. CASE UserFill(cid)
  BY <1>2 DEF UserFill, Handled, UserDataEvent
<1>3. CASE UserCancel(cid)
  BY <1>3 DEF UserCancel, Handled, UserDataEvent
<1>4. CASE UserIgnored(cid)
  BY <1>4 DEF UserIgnored, Handled, UserDataEvent, bridgeVars, history, trackVars
<1> QED BY <1>1, <1>2, <1>3, <1>4

LEMMA UserDataIds == ASSUME IdsInUse, UserDataEvent PROVE IdsInUse' /\ NoneComesBack
<1>1. /\ stream # <<>> /\ stream' = Tail(stream) /\ UNCHANGED <<book, acct, seeds, started, queue>>
      /\ Active => Handled(Head(stream), book[Head(stream)], "user")
      /\ ~Active => UNCHANGED <<registry, outbox, bookings, pendingPlaces, eligible>>
  BY EventHandled
<1>2. Head(stream) \in Drawn /\ StreamKnown'
  BY <1>1, NextEvent DEF IdsInUse, StreamKnown
<1>3. CASE Active
  <2>1. started /\ started' = started
    BY <1>1, <1>3 DEF Active
  <2> QED BY <1>1, <1>2, <1>3, <2>1, HandledIds
<1>4. CASE ~Active
  <2>1. RegistryDrawn /\ NoneComesBack /\ Drawn' = Drawn
    BY <1>1, <1>4, UntouchedRegistry DEF IdsInUse, registry, Drawn, DrawnEntries, DrawnExits
  <2>2. FoundKnown'
    BY <1>1 DEF IdsInUse, FoundKnown
  <2>3. \A r \in Asked' : r \in Asked
    BY <1>1, <1>4 DEF Asked
  <2>4. DOMAIN book' \subseteq Drawn' /\ DOMAIN bookings' \subseteq DOMAIN bookings
    BY <1>1, <1>4, <2>1 DEF IdsInUse
  <2>5. ~started' => outbox' = {} /\ queue' = {} /\ DOMAIN bookings' = {}
    BY <1>1, <1>4 DEF IdsInUse
  <2>6. IdsInUse'
    BY <1>2, <2>1, <2>2, <2>3, <2>4, <2>5, IdsKept
  <2> QED BY <2>1, <2>6
<1> QED BY <1>3, <1>4

LEMMA ReadOrdersIds == ASSUME IdsInUse, ReadOrders PROVE IdsInUse' /\ NoneComesBack
<1>1. UNCHANGED <<book, stream, outbox, queue, started, bookings>> /\ acct'.open = Cids("open")
  BY DEF ReadOrders, exchangeVars, history
<1>2. FoundKnown' /\ StreamKnown'
  BY <1>1 DEF IdsInUse, FoundKnown, StreamKnown, Cids
<1>3. RegistryDrawn
  BY DEF IdsInUse
<1>4. NoneComesBack /\ \A r \in seeds' : r \in seeds \/ LegalRequest(r)'
  <2>1. CASE Drifted(Cids("open"))
    <3>1. PICK reference : Startup({}, posRead, reference) /\ seeds' = ProtectiveRequests
      BY <2>1 DEF ReadOrders, AwaitSeeds
    <3>2. CidsOf({}) = {}
      BY DEF CidsOf
    <3> QED BY <1>3, <3>1, <3>2, StartedRegistry DEF NoneComesBack
  <2>2. CASE ~Drifted(Cids("open"))
    <3>1. UNCHANGED <<registry, seeds>>
      BY <2>2 DEF ReadOrders, bridgeVars
    <3> QED BY <1>3, <3>1, UntouchedRegistry
  <2> QED BY <2>1, <2>2
<1>5. DOMAIN book' \subseteq Drawn'
  BY <1>1, <1>3, <1>4, DrawnGrows DEF IdsInUse
<1>6. \A r \in Asked' : r \in Asked \/ LegalRequest(r)'
  BY <1>1, <1>4 DEF Asked
<1>7. ~started' => outbox' = {} /\ queue' = {} /\ DOMAIN bookings' = {}
  BY <1>1 DEF IdsInUse
<1>8. IdsInUse'
  BY <1>1, <1>2, <1>4, <1>5, <1>6, <1>7, IdsKept
<1> QED BY <1>4, <1>8

\* A sent order joins the book; the orders that are there stay as they are.
LEMMA SentOrder ==
  ASSUME NEW r, NEW status, Posted(r, status)
  PROVE  /\ DOMAIN book' = DOMAIN book \cup {r.cid}
         /\ \A c \in DOMAIN book : book'[c] = book[c]
         /\ r.cid \notin DOMAIN book =>
              book'[r.cid] = [side |-> r.side, price |-> r.price, qty |-> r.qty, status |-> status]
<1> DEFINE order == [side |-> r.side, price |-> r.price, qty |-> r.qty, status |-> status]
           placed == [c \in {r.cid} |-> order]
<1>1. book' = Merged(book, placed)
  BY DEF Posted
<1>2. DOMAIN placed = {r.cid} /\ placed[r.cid] = order
  OBVIOUS
<1> HIDE DEF placed, order
<1>3. \A x \in DOMAIN book \cup {r.cid} : book'[x] = IF x \in DOMAIN book THEN book[x] ELSE placed[x]
  BY <1>1, <1>2 DEF Merged
<1>4. DOMAIN book' = DOMAIN book \cup {r.cid}
  <2>1. DOMAIN Merged(book, placed) = DOMAIN book \cup DOMAIN placed
    BY MapDomains
  <2> QED BY <1>1, <1>2, <2>1
<1> QED BY <1>2, <1>3, <1>4 DEF order

LEMMA DispatchPlaceIds == ASSUME IdsInUse, NEW item \in outbox, DispatchPlace(item) PROVE IdsInUse' /\ NoneComesBack
<1> DEFINE cid == item.req.cid
<1>1. /\ UNCHANGED <<stream, queue, acct, seeds, started, bookings>> /\ outbox' = outbox \ {item}
      /\ (\E status \in {"open", "lost"} : Posted(item.req, status)) \/ UNCHANGED book
      /\ UNCHANGED registry \/ DropCid(cid)
  BY DEF DispatchPlace, RegisterPendingPlace, CleanFailedPlace, history
<1>2. LegalRequest(item.req)
  BY DEF IdsInUse, Asked
<1>3. RegistryDrawn /\ NoneComesBack /\ UNCHANGED <<entrySeq, exitSeq>>
  BY <1>1, UntouchedRegistry, DroppedCid DEF IdsInUse, registry, DropCid
<1>4. Drawn' = Drawn
  BY <1>3 DEF Drawn, DrawnEntries, DrawnExits
<1>5. DOMAIN book \subseteq DOMAIN book' /\ DOMAIN book' \subseteq DOMAIN book \cup {cid}
  BY <1>1, SentOrder
<1>6. FoundKnown' /\ StreamKnown'
  BY <1>1, <1>5, BookGrows DEF IdsInUse
<1>7. DOMAIN book' \subseteq Drawn'
  BY <1>2, <1>4, <1>5 DEF IdsInUse, LegalRequest
<1>8. \A r \in Asked' : r \in Asked
  BY <1>1 DEF Asked
<1>9. DOMAIN bookings' \subseteq DOMAIN bookings /\ (~started' => outbox' = {} /\ queue' = {} /\ DOMAIN bookings' = {})
  BY <1>1 DEF IdsInUse
<1>10. IdsInUse'
  BY <1>3, <1>6, <1>7, <1>8, <1>9, IdsKept
<1> QED BY <1>3, <1>10

LEMMA DispatchCancelIds == ASSUME IdsInUse, NEW item \in outbox, DispatchCancel(item) PROVE IdsInUse' /\ NoneComesBack
<1> DEFINE cid == item.req.cid
<1>1. /\ UNCHANGED <<queue, acct, seeds, started, bookings>> /\ outbox' = outbox \ {item}
      /\ (cid \in Cids("open") /\ CancelOrder(cid)) \/ UNCHANGED <<book, stream>>
      /\ UNCHANGED registry \/ DropCid(cid)
  BY DEF DispatchCancel, history
<1>2. RegistryDrawn /\ NoneComesBack /\ UNCHANGED <<entrySeq, exitSeq>>
  BY <1>1, UntouchedRegistry, DroppedCid DEF IdsInUse, registry, DropCid
<1>3. Drawn' = Drawn
  BY <1>2 DEF Drawn, DrawnEntries, DrawnExits
<1>4. DOMAIN book' = DOMAIN book
  BY <1>1 DEF CancelOrder
<1>5. StreamKnown'
  <2>1. CASE UNCHANGED <<book, stream>>
    BY <2>1 DEF IdsInUse, StreamKnown
  <2>2. CASE cid \in Cids("open") /\ CancelOrder(cid)
    BY <1>4, <2>2, Notified DEF IdsInUse, CancelOrder, Cids
  <2> QED BY <1>1, <2>1, <2>2
<1>6. FoundKnown'
  BY <1>1, <1>4 DEF IdsInUse, FoundKnown
<1>7. DOMAIN book' \subseteq Drawn' /\ DOMAIN bookings' \subseteq DOMAIN bookings
  BY <1>1, <1>3, <1>4 DEF IdsInUse
<1>8. \A r \in Asked' : r \in Asked
  BY <1>1 DEF Asked
<1>9. ~started' => outbox' = {} /\ queue' = {} /\ DOMAIN bookings' = {}
  BY <1>1 DEF IdsInUse
<1>10. IdsInUse'
  BY <1>2, <1>5, <1>6, <1>7, <1>8, <1>9, IdsKept
<1> QED BY <1>2, <1>10

LEMMA ExchangeIds ==
  ASSUME IdsInUse, NEW cid \in DOMAIN book, ExchangeFill(cid) \/ OutsideCancel(cid) \/ Redeliver(cid)
  PROVE  IdsInUse' /\ NoneComesBack
<1>1. UNCHANGED <<registry, acct, seeds, outbox, queue, started, bookings>> /\ DOMAIN book' = DOMAIN book /\ Notify(cid)
  BY DEF ExchangeFill, OutsideCancel, Redeliver, bridgeVars, engineVars, loopVars, history
<1>2. RegistryDrawn /\ NoneComesBack /\ Drawn' = Drawn
  BY <1>1, UntouchedRegistry DEF IdsInUse, registry, Drawn, DrawnEntries, DrawnExits
<1>3. StreamKnown'
  BY <1>1, Notified DEF IdsInUse
<1>4. FoundKnown'
  BY <1>1 DEF IdsInUse, FoundKnown
<1>5. DOMAIN book' \subseteq Drawn' /\ DOMAIN bookings' \subseteq DOMAIN bookings
  BY <1>1, <1>2 DEF IdsInUse
<1>6. \A r \in Asked' : r \in Asked
  BY <1>1 DEF Asked
<1>7. ~started' => outbox' = {} /\ queue' = {} /\ DOMAIN bookings' = {}
  BY <1>1 DEF IdsInUse
<1>8. IdsInUse'
  BY <1>2, <1>3, <1>4, <1>5, <1>6, <1>7, IdsKept
<1> QED BY <1>2, <1>8

LEMMA CrashIds == ASSUME IdsInUse, Crash PROVE IdsInUse'
<1>1. /\ UNCHANGED <<book, entrySeq, exitSeq>> /\ entryReg' = <<>> /\ exitReg' = <<>> /\ stream' = <<>>
      /\ acct' = NoAcct /\ outbox' = {} /\ seeds' = {} /\ queue' = {} /\ bookings' = <<>>
  BY DEF Crash, Forgotten
<1>2. Drawn' = Drawn /\ ActiveCids' = {}
  BY <1>1 DEF Drawn, DrawnEntries, DrawnExits, ActiveCids
<1>3. RegistryDrawn'
  BY <1>1 DEF IdsInUse, RegistryDrawn
<1>4. <<>> \in Seq(DOMAIN book')
  BY EmptySeq
<1>5. Asked' = {} /\ DOMAIN bookings' = {}
  BY <1>1 DEF Asked
<1> QED BY <1>1, <1>2, <1>3, <1>4, <1>5 DEF IdsInUse, FoundKnown, StreamKnown

\* Steps that move none of it.
LEMMA LiveIds == ASSUME IdsInUse, [LiveNext]_liveVars PROVE IdsInUse'
<1>1. ASSUME UNCHANGED liveVars PROVE IdsInUse'
  <2>1. UNCHANGED <<registry, book, acct, stream, seeds, started, bookings, outbox, queue>>
    BY <1>1 DEF liveVars, bridgeVars, exchangeVars, engineVars, loopVars, history
  <2> QED BY <2>1, IdsStill
<1>2. ASSUME EndFills \/ SkipSync \/ ReadPositions \/ EndTick \/ Restart PROVE IdsInUse'
  <2>1. UNCHANGED <<registry, book, acct, stream, seeds, started, bookings, outbox, queue>>
    BY <1>2 DEF EndFills, SkipSync, ReadPositions, EndTick, Restart, bridgeVars, exchangeVars, history
  <2> QED BY <2>1, IdsStill
<1>3. ASSUME NEW cid \in queue, HandleFill(cid) PROVE IdsInUse'
  BY <1>3, HandleFillIds
<1>4. ASSUME NEW item \in outbox, DispatchPlace(item) \/ DispatchCancel(item) PROVE IdsInUse'
  BY <1>4, DispatchPlaceIds, DispatchCancelIds
<1>5. ASSUME Engine PROVE IdsInUse'
  BY <1>2, <1>3, <1>4, <1>5, BootIds, BeginTickIds, UserDataIds, ReadOrdersIds DEF Engine
<1>6. ASSUME Exchange PROVE IdsInUse'
  BY <1>6, ExchangeIds DEF Exchange
<1> QED BY <1>1, <1>2, <1>5, <1>6, CrashIds DEF LiveNext

LEMMA LiveInitIds == ASSUME LiveInit PROVE IdsInUse
<1>1. /\ entrySeq = 0 /\ exitSeq = 0 /\ DOMAIN entryReg = {} /\ DOMAIN exitReg = {} /\ DOMAIN book = {}
      /\ seeds = {} /\ outbox = {} /\ queue = {} /\ acct = NoAcct /\ stream = <<>> /\ DOMAIN bookings = {}
  BY DEF LiveInit
<1>2. <<>> \in Seq(DOMAIN book)
  BY EmptySeq
<1> QED BY <1>1, <1>2 DEF IdsInUse, RegistryDrawn, Asked, FoundKnown, StreamKnown

\* Client order ids are drawn once: no request, event or booking names an id that the
\* registry's sequences have still to draw, and a booked id is registered no more.
THEOREM IdsDrawnOnce == LiveSpec => []IdsInUse
<1>1. LiveInit => IdsInUse
  BY LiveInitIds
<1>2. IdsInUse /\ [LiveNext]_liveVars => IdsInUse'
  BY LiveIds
<1> QED BY <1>1, <1>2, PTL DEF LiveSpec

-----------------------------------------------------------------------------
\* A fill is booked once: by polling, because the id is registered no more.

PolledOnce == IdsInUse /\ stream = <<>> /\ EachFillBookedOnce

LEMMA CountedOnce ==
  ASSUME EachFillBookedOnce, NEW cid, cid \notin DOMAIN bookings, Count(cid)
  PROVE  EachFillBookedOnce'
BY DEF EachFillBookedOnce, Count

LEMMA SilentStream ==
  ASSUME ~UserData, stream = <<>>, [LiveNext]_liveVars
  PROVE  stream' = <<>> /\ ~UserDataEvent
<1>1. \A cid : Notify(cid) => stream' = stream
  BY DEF Notify
<1>2. ASSUME Engine PROVE stream' = <<>>
  BY <1>1, <1>2 DEF Engine, Boot, BeginTick, EndFills, UserDataEvent, SkipSync, ReadPositions, ReadOrders, EndTick,
     HandleFill, DispatchPlace, DispatchCancel, CancelOrder, exchangeVars
<1>3. ASSUME Exchange PROVE stream' = <<>>
  BY <1>1, <1>3 DEF Exchange, ExchangeFill, OutsideCancel, Redeliver
<1>4. ~UserDataEvent
  BY DEF UserDataEvent
<1> QED BY <1>2, <1>3, <1>4 DEF LiveNext, Crash, Restart, liveVars, exchangeVars

LEMMA PolledOnceStep ==
  ASSUME ~UserData, PolledOnce, [LiveNext]_liveVars
  PROVE  PolledOnce'
<1>1. IdsInUse' /\ stream' = <<>> /\ ~UserDataEvent
  BY LiveIds, SilentStream DEF PolledOnce
<1>2. ASSUME NEW cid \in queue, HandleFill(cid) PROVE EachFillBookedOnce'
  <2>1. CASE cid \in ActiveCids /\ AcceptFill(cid, InferredFill(cid), "poll")
    <3>1. cid \notin DOMAIN bookings /\ Count(cid)
      BY <2>1 DEF PolledOnce, IdsInUse, AcceptFill
    <3> QED BY <3>1, CountedOnce DEF PolledOnce
  <2>2. CASE ~(cid \in ActiveCids /\ AcceptFill(cid, InferredFill(cid), "poll"))
    <3>1. UNCHANGED bookings
      BY <1>2, <2>2 DEF HandleFill, RefuseFill, IgnoreFill, history
    <3> QED BY <3>1 DEF PolledOnce, EachFillBookedOnce
  <2> QED BY <2>1, <2>2
<1>3. ASSUME ~(\E cid \in queue : HandleFill(cid)), ~Crash PROVE UNCHANGED bookings
  <2>1. ASSUME Engine PROVE UNCHANGED bookings
    BY <1>1, <1>3, <2>1 DEF Engine, Boot, BeginTick, EndFills, SkipSync, ReadPositions, ReadOrders, EndTick,
       DispatchPlace, DispatchCancel, history
  <2>2. ASSUME Exchange PROVE UNCHANGED bookings
    BY <2>2 DEF Exchange, ExchangeFill, OutsideCancel, Redeliver, history
  <2> QED BY <1>3, <2>1, <2>2 DEF LiveNext, Restart, liveVars, history
<1>4. ASSUME Crash PROVE EachFillBookedOnce'
  BY <1>4 DEF Crash, EachFillBookedOnce
<1>5. UNCHANGED bookings => EachFillBookedOnce'
  BY DEF PolledOnce, EachFillBookedOnce
<1> QED BY <1>1, <1>2, <1>3, <1>4, <1>5 DEF PolledOnce

\* I8, where fills are only polled for: a fill moves the machine once, netted off or not,
\* and whatever the machine is rebuilt from.
THEOREM PolledFillsBookedOnce == ASSUME ~UserData PROVE LiveSpec => []EachFillBookedOnce
<1>1. LiveInit => PolledOnce
  <2> SUFFICES ASSUME LiveInit PROVE PolledOnce
    OBVIOUS
  <2>1. DOMAIN bookings = {} /\ stream = <<>>
    BY DEF LiveInit
  <2> QED BY <2>1, LiveInitIds DEF PolledOnce, EachFillBookedOnce
<1>2. PolledOnce /\ [LiveNext]_liveVars => PolledOnce'
  BY PolledOnceStep
<1>3. PolledOnce => EachFillBookedOnce
  BY DEF PolledOnce
<1> QED BY <1>1, <1>2, <1>3, PTL DEF LiveSpec

-----------------------------------------------------------------------------
\* With the stream as well: because the machine remembers the entries it opened lots for
\* and the exits that closed them.  A drift reconstruction forgets them, and a net-off
\* leaves no trace of the entry that filled.

Remembered(c) == (IsEntry(c) => c \in OpenIds \cup closedLots) /\ (IsExit(c) => c \in recentExits)
BookedRemembered == \A c \in DOMAIN bookings : bookings[c] = 1 /\ Remembered(c)

Reconstruction == phase = "read" /\ Drifted(Cids("open")) /\ ReadOrders

LEMMA RememberedKept ==
  ASSUME BookedRemembered, OpenIds \cup closedLots \subseteq (OpenIds \cup closedLots)', recentExits \subseteq recentExits'
  PROVE  \A c \in DOMAIN bookings : bookings[c] = 1 /\ Remembered(c)'
BY DEF BookedRemembered, Remembered

LEMMA AcceptedOnce ==
  ASSUME ~NetoffEnabled, BookedRemembered, NEW cid, NEW o, NEW path, AcceptFill(cid, o, path)
  PROVE  BookedRemembered'
<1>1. CASE IsEntry(cid) /\ AcceptEntryFill(cid, o.side, o.price, o.qty)
  <2>1. ExecuteEntry(cid, o.side, EntryPrice(cid, o.price), o.qty) /\ UNCHANGED recentExits
    BY <1>1 DEF AcceptEntryFill, ExecuteNetoff
  <2>2. cid \notin OpenIds \cup closedLots /\ DOMAIN openLots' = OpenIds \cup {cid} /\ UNCHANGED closedLots
    <3>1. cid \notin OpenIds \cup closedLots /\ UNCHANGED closedLots
      BY <2>1 DEF ExecuteEntry, EntryAdmissible, SeenEntry
    <3>2. \E lot : openLots' = With(openLots, cid, lot)
      BY <2>1 DEF ExecuteEntry
    <3>3. \A lot : DOMAIN With(openLots, cid, lot) = OpenIds \cup {cid}
      BY DEF With, OpenIds
    <3> QED BY <3>1, <3>2, <3>3
  <2>3. cid \notin DOMAIN bookings
    BY <1>1, <2>2 DEF BookedRemembered, Remembered
  <2>4. OpenIds \cup closedLots \subseteq (OpenIds \cup closedLots)' /\ cid \in (OpenIds \cup closedLots)'
    BY <2>2 DEF OpenIds
  <2>5. Remembered(cid)'
    BY <1>1, <2>4 DEF Remembered, IsEntry, IsExit
  <2>6. \A c \in DOMAIN bookings : bookings[c] = 1 /\ Remembered(c)'
    BY <2>1, <2>4, RememberedKept
  <2>7. Count(cid)
    BY DEF AcceptFill
  <2> QED BY <2>3, <2>5, <2>6, <2>7 DEF BookedRemembered, Count
<1>2. CASE IsExit(cid) /\ AcceptExitFill(cid, o.qty, 0)
  <2>1. cid \notin recentExits /\ recentExits' = recentExits \cup {cid}
    BY <1>2 DEF AcceptExitFill, SuppressedExit
  <2>2. PICK lot : ExecuteExit(lot, lot, o.qty, 0)
    BY <1>2 DEF AcceptExitFill
  <2>3. DOMAIN openLots' = OpenIds \ {lot} /\ closedLots' = closedLots \cup {lot}
    <3>1. openLots' = Without(openLots, lot) /\ closedLots' = closedLots \cup {lot}
      BY <2>2 DEF ExecuteExit
    <3>2. DOMAIN Without(openLots, lot) = OpenIds \ {lot}
      BY DEF Without, OpenIds
    <3> QED BY <3>1, <3>2
  <2>4. OpenIds \cup closedLots \subseteq (OpenIds \cup closedLots)'
    BY <2>3 DEF OpenIds
  <2>5. cid \notin DOMAIN bookings
    BY <1>2, <2>1 DEF BookedRemembered, Remembered
  <2>6. Remembered(cid)'
    BY <1>2, <2>1 DEF Remembered, IsEntry, IsExit
  <2>7. \A c \in DOMAIN bookings : bookings[c] = 1 /\ Remembered(c)'
    BY <2>1, <2>4, RememberedKept
  <2>8. Count(cid)
    BY DEF AcceptFill
  <2> QED BY <2>5, <2>6, <2>7, <2>8 DEF BookedRemembered, Count
<1> QED BY <1>1, <1>2 DEF AcceptFill

LEMMA MachineStill ==
  ASSUME BookedRemembered, UNCHANGED <<openLots, closedLots, recentExits, bookings>>
  PROVE  BookedRemembered'
BY DEF BookedRemembered, Remembered, OpenIds

LEMMA RefusedOrIgnored ==
  ASSUME NEW cid, NEW o, RefuseFill(cid, o) \/ IgnoreFill(cid)
  PROVE  UNCHANGED <<openLots, closedLots, recentExits, bookings>>
BY DEF RefuseFill, RejectEntryFill, RejectExitFill, RejectEntry, RejectExit, NoTransition, IgnoreFill, bridgeVars, history,
       vars, snapshot

LEMMA RememberedStep ==
  ASSUME ~NetoffEnabled, IdsInUse, BookedRemembered, [LiveNext /\ ~Reconstruction]_liveVars
  PROVE  BookedRemembered'
<1>1. ASSUME NEW cid \in queue, HandleFill(cid) PROVE BookedRemembered'
  <2>1. CASE AcceptFill(cid, InferredFill(cid), "poll")
    BY <2>1, AcceptedOnce
  <2>2. CASE RefuseFill(cid, InferredFill(cid)) \/ IgnoreFill(cid)
    BY <2>2, RefusedOrIgnored, MachineStill
  <2>3. CASE UNCHANGED <<vars, bridgeVars, outbox, history>>
    BY <2>3, MachineStill DEF vars, snapshot, bridgeVars, history
  <2> QED BY <1>1, <2>1, <2>2, <2>3 DEF HandleFill
<1>2. ASSUME UserDataEvent PROVE BookedRemembered'
  <2> DEFINE cid == Head(stream)
  <2>1. CASE AcceptFill(cid, book[cid], "user")
    BY <2>1, AcceptedOnce
  <2>2. CASE RefuseFill(cid, book[cid]) \/ IgnoreFill(cid)
    BY <2>2, RefusedOrIgnored, MachineStill
  <2>3. CASE UserCancel(cid) \/ UserIgnored(cid)
    BY <2>3, MachineStill DEF UserCancel, UserIgnored, vars, snapshot, bridgeVars, history
  <2> QED BY <1>2, <2>1, <2>2, <2>3 DEF UserDataEvent, UserFill
<1>3. ASSUME Boot PROVE BookedRemembered'
  <2>1. DOMAIN bookings' = {}
    BY <1>3 DEF Boot, IdsInUse, history
  <2> QED BY <2>1 DEF BookedRemembered
<1>4. ASSUME Crash PROVE BookedRemembered'
  BY <1>4 DEF Crash, BookedRemembered
<1>5. ASSUME ReadOrders, ~Reconstruction PROVE BookedRemembered'
  <2>1. UNCHANGED <<vars, bridgeVars, history>>
    BY <1>5 DEF ReadOrders, Reconstruction
  <2> QED BY <2>1, MachineStill DEF vars, snapshot, bridgeVars, history
<1>6. ASSUME \/ BeginTick \/ EndFills \/ SkipSync \/ ReadPositions \/ EndTick \/ Restart \/ Exchange
             \/ \E item \in outbox : DispatchPlace(item) \/ DispatchCancel(item)
             \/ UNCHANGED liveVars
      PROVE  BookedRemembered'
  <2>1. UNCHANGED <<vars, recentExits, history>>
    BY <1>6 DEF BeginTick, EndFills, SkipSync, ReadPositions, EndTick, Restart, DispatchPlace, DispatchCancel,
       Exchange, ExchangeFill, OutsideCancel, Redeliver, liveVars, bridgeVars
  <2> QED BY <2>1, MachineStill DEF vars, snapshot, history
<1> QED BY <1>1, <1>2, <1>3, <1>4, <1>5, <1>6 DEF LiveNext, Engine

\* I8, where fills are polled for and reported, in whatever order and however often: a fill
\* moves the machine once, unless a net-off or a drift reconstruction made it forget.
THEOREM FillsBookedOnce ==
  ASSUME ~NetoffEnabled
  PROVE  LiveInit /\ [][LiveNext /\ ~Reconstruction]_liveVars => []EachFillBookedOnce
<1>1. LiveInit => IdsInUse /\ BookedRemembered
  <2> SUFFICES ASSUME LiveInit PROVE IdsInUse /\ BookedRemembered
    OBVIOUS
  <2>1. DOMAIN bookings = {}
    BY DEF LiveInit
  <2> QED BY <2>1, LiveInitIds DEF BookedRemembered
<1>2. IdsInUse /\ BookedRemembered /\ [LiveNext /\ ~Reconstruction]_liveVars => (IdsInUse /\ BookedRemembered)'
  BY LiveIds, RememberedStep
<1>3. BookedRemembered => EachFillBookedOnce
  BY DEF BookedRemembered, EachFillBookedOnce
<1> QED BY <1>1, <1>2, <1>3, PTL

-----------------------------------------------------------------------------
\* An absence is explained: an order that is registered, may have been on the exchange and
\* is not found any more has filled, or somebody else has cancelled it, or it was lost on its
\* way to the exchange.

Vanished == {"filled", "expired", "lost"}

IsOrder(o) ==
  \E side, price, qty : \E status \in {"open", "filled", "canceled", "expired", "lost"} :
    o = [side |-> side, price |-> price, qty |-> qty, status |-> status]

AbsenceExplained ==
  /\ \A c \in DOMAIN book : IsOrder(book[c])
  /\ \A c \in ActiveCids \cap DOMAIN book : book[c].status # "canceled"
  /\ eligible \subseteq DOMAIN book
  /\ \A c \in (ActiveCids \cap eligible) \ DOMAIN pendingPlaces : c \in acct.open \/ book[c].status \in Vanished
  /\ queue \subseteq DOMAIN book
  /\ \A c \in queue \cap ActiveCids : book[c].status \in Vanished
  /\ ~started /\ acct # NoAcct => \A c \in acct.open : book[c].status # "canceled"
  /\ NoFillInvented

LEMMA InventedMeans ==
  NoFillInvented <=> DOMAIN bookings \subseteq DOMAIN book /\ \A c \in DOMAIN bookings : book[c].status \in Vanished
BY DEF NoFillInvented, Cids, Vanished

\* A step that leaves the book alone and looks for no new absence.
LEMMA TruthUntouched ==
  ASSUME IdsInUse, AbsenceExplained, NoneComesBack, UNCHANGED <<book, acct, started>>,
         eligible' \subseteq eligible, DOMAIN pendingPlaces \cap eligible' \subseteq DOMAIN pendingPlaces',
         queue' \subseteq queue, \A c \in DOMAIN bookings' : c \in DOMAIN bookings \/ (c \in DOMAIN book /\ book[c].status \in Vanished)
  PROVE  AbsenceExplained'
<1>1. ActiveCids' \cap DOMAIN book \subseteq ActiveCids
  BY DEF IdsInUse, NoneComesBack
<1>2. /\ \A c \in DOMAIN book' : IsOrder(book'[c])
      /\ \A c \in ActiveCids' \cap DOMAIN book' : book'[c].status # "canceled"
      /\ eligible' \subseteq DOMAIN book' /\ queue' \subseteq DOMAIN book'
  BY <1>1 DEF AbsenceExplained
<1>3. \A c \in (ActiveCids' \cap eligible') \ DOMAIN pendingPlaces' : c \in acct'.open \/ book'[c].status \in Vanished
  BY <1>1 DEF AbsenceExplained
<1>4. \A c \in queue' \cap ActiveCids' : book'[c].status \in Vanished
  BY <1>1 DEF AbsenceExplained
<1>5. ~started' /\ acct' # NoAcct => \A c \in acct'.open : book'[c].status # "canceled"
  BY DEF AbsenceExplained
<1>6. NoFillInvented'
  BY DEF AbsenceExplained, NoFillInvented, Cids, Vanished
<1>7. (\A c \in DOMAIN book : IsOrder(book[c]))'
  BY <1>2 DEF IsOrder
<1> QED BY <1>2, <1>3, <1>4, <1>5, <1>6, <1>7 DEF AbsenceExplained

\* Booking, refusing or ignoring a fill that was made.
LEMMA TruthHandled ==
  ASSUME IdsInUse, AbsenceExplained, NoneComesBack, NEW cid \in DOMAIN book, book[cid].status \in Vanished, NEW o, NEW path, Handled(cid, o, path),
         UNCHANGED <<book, acct, started>>,
         eligible' \subseteq eligible, DOMAIN pendingPlaces \cap eligible' \subseteq DOMAIN pendingPlaces',
         queue' \subseteq queue
  PROVE  AbsenceExplained'
<1>1. \A c \in DOMAIN bookings' : c \in DOMAIN bookings \/ (c \in DOMAIN book /\ book[c].status \in Vanished)
  BY DEF Handled, AcceptFill, Count, RefuseFill, IgnoreFill, history
<1> QED BY <1>1, TruthUntouched

LEMMA TruthHandleFill == ASSUME IdsInUse, AbsenceExplained, NEW cid \in queue, HandleFill(cid) PROVE AbsenceExplained'
<1>1. /\ NoneComesBack /\ UNCHANGED <<book, acct, started, eligible, pendingPlaces>> /\ queue' \subseteq queue
  BY HandleFillIds DEF HandleFill, exchangeVars, trackVars
<1>2. CASE cid \in ActiveCids
  <2>1. Handled(cid, InferredFill(cid), "poll")
    BY <1>2 DEF HandleFill, Handled
  <2>2. cid \in DOMAIN book /\ book[cid].status \in Vanished
    BY <1>2 DEF AbsenceExplained
  <2> QED BY <1>1, <2>1, <2>2, TruthHandled
<1>3. CASE cid \notin ActiveCids
  <2>1. UNCHANGED bookings
    BY <1>3 DEF HandleFill, history
  <2> QED BY <1>1, <2>1, TruthUntouched
<1> QED BY <1>2, <1>3

LEMMA TruthUserData == ASSUME IdsInUse, AbsenceExplained, UserDataEvent PROVE AbsenceExplained'
<1> DEFINE cid == Head(stream)
<1>1. NoneComesBack /\ UNCHANGED <<book, acct, started, queue>> /\ cid \in DOMAIN book
  BY UserDataIds, EventHandled, NextEvent DEF IdsInUse
<1>2. CASE UserFill(cid)
  <2>1. cid \in DOMAIN book /\ book[cid].status \in Vanished /\ Handled(cid, book[cid], "user")
    BY <1>1, <1>2 DEF UserFill, Vanished, Handled
  <2>2. eligible' = eligible \ {cid} /\ DOMAIN pendingPlaces' = DOMAIN pendingPlaces \ {cid}
    BY <1>2, MapDomains DEF UserFill, StopTracking
  <2> QED BY <1>1, <2>1, <2>2, TruthHandled
<1>3. CASE UserCancel(cid) \/ UserIgnored(cid)
  <2>1. UNCHANGED <<eligible, pendingPlaces, bookings>>
    BY <1>3 DEF UserCancel, UserIgnored, trackVars, history
  <2> QED BY <1>1, <2>1, TruthUntouched
<1> QED BY <1>2, <1>3 DEF UserDataEvent

LEMMA TruthBeginTick == ASSUME IdsInUse, AbsenceExplained, BeginTick PROVE AbsenceExplained'
<1>1. UNCHANGED <<registry, book, acct, started, eligible, pendingPlaces, bookings>>
  BY DEF BeginTick, bridgeVars, trackVars, history
<1>2. ActiveCids' = ActiveCids
  BY <1>1, UntouchedRegistry DEF IdsInUse
<1>3. queue' \subseteq ((ActiveCids \ acct.open) \cap eligible) \ DOMAIN pendingPlaces
  BY DEF BeginTick, Disappeared
<1>4. queue' \subseteq DOMAIN book /\ \A c \in queue' : book[c].status \in Vanished
  BY <1>3 DEF AbsenceExplained
<1>5. NoFillInvented' /\ (\A c \in DOMAIN book : IsOrder(book[c]))'
  BY <1>1 DEF AbsenceExplained, NoFillInvented, Cids, Vanished, IsOrder
<1> QED BY <1>1, <1>2, <1>4, <1>5 DEF AbsenceExplained

LEMMA TruthBoot == ASSUME IdsInUse, AbsenceExplained, Boot PROVE AbsenceExplained'
<1>1. UNCHANGED <<book, acct, queue, bookings, pendingPlaces>> /\ started' /\ ~started /\ acct # NoAcct
  BY DEF Boot, exchangeVars, history
<1>2. queue = {} /\ acct.open \subseteq DOMAIN book /\ DOMAIN book \subseteq Drawn
  BY <1>1 DEF IdsInUse, FoundKnown
<1>3. BootedRegistry
  BY BootRegistry
<1>4. \A c \in ActiveCids' \cap DOMAIN book : book[c].status # "canceled"
  BY <1>1, <1>2, <1>3 DEF BootedRegistry, AbsenceExplained
<1>5. \/ eligible' = acct.open
      \/ UNCHANGED eligible /\ ActiveCids' = ActiveCids
  BY <1>3, UntouchedRegistry DEF BootedRegistry, IdsInUse
<1>6. NoFillInvented' /\ (\A c \in DOMAIN book : IsOrder(book[c]))'
  BY <1>1 DEF AbsenceExplained, NoFillInvented, Cids, Vanished, IsOrder
<1>7. eligible' \subseteq DOMAIN book
  BY <1>2, <1>5 DEF AbsenceExplained
<1>8. \A c \in (ActiveCids' \cap eligible') \ DOMAIN pendingPlaces : c \in acct.open \/ book[c].status \in Vanished
  BY <1>5 DEF AbsenceExplained
<1> QED BY <1>1, <1>2, <1>4, <1>6, <1>7, <1>8 DEF AbsenceExplained

LEMMA TruthReadOrders == ASSUME IdsInUse, AbsenceExplained, ReadOrders PROVE AbsenceExplained'
<1>1. UNCHANGED <<book, queue, started, bookings>> /\ acct'.open = Cids("open")
  BY DEF ReadOrders, exchangeVars, history
<1>2. eligible' \subseteq eligible
  BY DEF ReadOrders
<1>3. ActiveCids' \cap DOMAIN book \subseteq ActiveCids
  BY ReadOrdersIds DEF IdsInUse, NoneComesBack
<1>4. \A c \in DOMAIN book : book[c].status \in {"open", "canceled"} \cup Vanished
  BY DEF AbsenceExplained, IsOrder, Vanished
<1>5. /\ \A c \in ActiveCids' \cap DOMAIN book : book[c].status # "canceled"
      /\ eligible' \subseteq DOMAIN book
      /\ \A c \in queue \cap ActiveCids' : book[c].status \in Vanished
  BY <1>2, <1>3 DEF AbsenceExplained
<1>6. \A c \in ActiveCids' \cap eligible' : c \in Cids("open") \/ book[c].status \in Vanished
  BY <1>4, <1>5 DEF Cids
<1>7. \A c \in Cids("open") : book[c].status # "canceled"
  BY DEF Cids
<1>8. NoFillInvented' /\ (\A c \in DOMAIN book : IsOrder(book[c]))'
  BY <1>1 DEF AbsenceExplained, NoFillInvented, Cids, Vanished, IsOrder
<1>9. queue' \subseteq DOMAIN book'
  BY <1>1 DEF AbsenceExplained
<1> QED BY <1>1, <1>5, <1>6, <1>7, <1>8, <1>9 DEF AbsenceExplained

LEMMA TruthCrash == ASSUME IdsInUse, AbsenceExplained, Crash PROVE AbsenceExplained'
<1>1. /\ UNCHANGED book /\ entryReg' = <<>> /\ exitReg' = <<>> /\ acct' = NoAcct /\ queue' = {} /\ eligible' = {}
      /\ bookings' = <<>>
  BY DEF Crash, Forgotten
<1>2. ActiveCids' = {} /\ DOMAIN bookings' = {}
  BY <1>1 DEF ActiveCids
<1>3. NoFillInvented' /\ (\A c \in DOMAIN book : IsOrder(book[c]))'
  BY <1>1, <1>2 DEF AbsenceExplained, NoFillInvented, IsOrder
<1> QED BY <1>1, <1>2, <1>3 DEF AbsenceExplained

LEMMA OpenOrder ==
  ASSUME NEW r, NEW status \in {"open", "lost"}
  PROVE  IsOrder([side |-> r.side, price |-> r.price, qty |-> r.qty, status |-> status])
BY DEF IsOrder

LEMMA TruthDispatchPlace ==
  ASSUME IdsInUse, AbsenceExplained, NEW item \in outbox, DispatchPlace(item)
  PROVE  AbsenceExplained'
<1> DEFINE r == item.req
<1>1. NoneComesBack /\ UNCHANGED <<acct, started, queue, bookings>> /\ started
  BY DispatchPlaceIds DEF DispatchPlace, history, IdsInUse
<1>2. ASSUME NEW status \in {"open", "lost"}, Posted(r, status), RegisterPendingPlace(r.cid)
      PROVE  AbsenceExplained'
  <2>1. UNCHANGED registry /\ eligible' = eligible \cup {r.cid} /\ DOMAIN pendingPlaces' = DOMAIN pendingPlaces \cup {r.cid}
    <3>1. UNCHANGED registry /\ eligible' = eligible \cup {r.cid} /\ pendingPlaces' = With(pendingPlaces, r.cid, 0)
      BY <1>2 DEF RegisterPendingPlace
    <3>2. DOMAIN With(pendingPlaces, r.cid, 0) = DOMAIN pendingPlaces \cup {r.cid}
      BY DEF With
    <3> QED BY <3>1, <3>2
  <2>2. ActiveCids' = ActiveCids
    BY <2>1, UntouchedRegistry DEF IdsInUse
  <2>3. /\ DOMAIN book' = DOMAIN book \cup {r.cid}
        /\ \A c \in DOMAIN book : book'[c] = book[c]
        /\ r.cid \notin DOMAIN book =>
              book'[r.cid] = [side |-> r.side, price |-> r.price, qty |-> r.qty, status |-> status]
    BY <1>2, SentOrder
  <2> HIDE DEF r
  <2>4. \A c \in DOMAIN book' : IsOrder(book'[c])
    <3>1. IsOrder([side |-> r.side, price |-> r.price, qty |-> r.qty, status |-> status])
      BY OpenOrder
    <3>2. \A c \in DOMAIN book : IsOrder(book[c])
      BY DEF AbsenceExplained
    <3> QED BY <2>3, <3>1, <3>2
  <2>5. \A c \in ActiveCids \cap DOMAIN book' : book'[c].status # "canceled"
    BY <2>3 DEF AbsenceExplained
  <2>6. eligible' \subseteq DOMAIN book' /\ queue \subseteq DOMAIN book'
    BY <2>1, <2>3 DEF AbsenceExplained
  <2>7. \A c \in (ActiveCids \cap eligible') \ DOMAIN pendingPlaces' : c \in acct.open \/ book'[c].status \in Vanished
    BY <2>1, <2>3 DEF AbsenceExplained
  <2>8. \A c \in queue \cap ActiveCids : book'[c].status \in Vanished
    BY <2>3 DEF AbsenceExplained
  <2>9. NoFillInvented'
    BY <1>1, <2>3 DEF AbsenceExplained, NoFillInvented, Cids, Vanished
  <2>10. (\A c \in DOMAIN book : IsOrder(book[c]))'
    BY <2>4 DEF IsOrder
  <2> QED BY <1>1, <2>2, <2>5, <2>6, <2>7, <2>8, <2>9, <2>10 DEF AbsenceExplained
<1>3. CASE UNCHANGED book /\ CleanFailedPlace(r.cid)
  <2>1. eligible' = eligible \ {r.cid} /\ DOMAIN pendingPlaces' = DOMAIN pendingPlaces \ {r.cid}
    BY <1>3, MapDomains DEF CleanFailedPlace
  <2> QED BY <1>1, <1>3, <2>1, TruthUntouched
<1> QED BY <1>2, <1>3 DEF DispatchPlace, Happens

\* An order that changes its status, cancelled or filled.
LEMMA StatusSet ==
  ASSUME AbsenceExplained, NEW cid \in Cids("open"), NEW status \in {"filled", "canceled", "expired"},
         book' = [book EXCEPT ![cid].status = status]
  PROVE  /\ DOMAIN book' = DOMAIN book /\ book'[cid].status = status
         /\ \A c \in DOMAIN book \ {cid} : book'[c] = book[c]
         /\ \A c \in DOMAIN book' : IsOrder(book'[c])
<1>1. cid \in DOMAIN book /\ IsOrder(book[cid])
  BY DEF AbsenceExplained, Cids
<1>2. DOMAIN book' = DOMAIN book /\ \A c \in DOMAIN book \ {cid} : book'[c] = book[c]
  OBVIOUS
<1>3. book'[cid] = [book[cid] EXCEPT !.status = status]
  BY <1>1
<1>4. book'[cid].status = status /\ IsOrder(book'[cid])
  BY <1>1, <1>3 DEF IsOrder
<1> QED BY <1>2, <1>4 DEF AbsenceExplained

LEMMA TruthStatus ==
  ASSUME IdsInUse, AbsenceExplained, NoneComesBack, NEW cid \in Cids("open"), NEW status \in {"filled", "canceled", "expired"},
         status = "canceled" => cid \notin ActiveCids /\ started,
         book' = [book EXCEPT ![cid].status = status],
         UNCHANGED <<acct, started, eligible, pendingPlaces, queue, bookings>>
  PROVE  AbsenceExplained'
<1>1. ActiveCids' \cap DOMAIN book \subseteq ActiveCids
  BY DEF IdsInUse, NoneComesBack
<1>2. /\ DOMAIN book' = DOMAIN book /\ book'[cid].status = status
      /\ \A c \in DOMAIN book \ {cid} : book'[c] = book[c]
      /\ \A c \in DOMAIN book' : IsOrder(book'[c])
  BY StatusSet
<1>3. cid \in DOMAIN book /\ book[cid].status = "open"
  BY DEF Cids
<1>a. \A c \in ActiveCids' \cap DOMAIN book : book[c].status \in Vanished => book'[c].status \in Vanished
  BY <1>2, <1>3 DEF Vanished
<1>b. cid \in ActiveCids' => status \in Vanished
  BY <1>1, <1>3 DEF Vanished
<1>4. \A c \in ActiveCids' \cap DOMAIN book' : book'[c].status # "canceled"
  BY <1>1, <1>2 DEF AbsenceExplained
<1>5. \A c \in (ActiveCids' \cap eligible) \ DOMAIN pendingPlaces : c \in acct.open \/ book'[c].status \in Vanished
  BY <1>1, <1>2, <1>3, <1>a, <1>b DEF AbsenceExplained
<1>6. \A c \in queue \cap ActiveCids' : book'[c].status \in Vanished
  BY <1>1, <1>2, <1>3, <1>a, <1>b DEF AbsenceExplained
<1>7. ~started /\ acct # NoAcct => \A c \in acct.open : book'[c].status # "canceled"
  BY <1>2 DEF AbsenceExplained, IdsInUse, FoundKnown
<1>8. NoFillInvented'
  BY <1>2, <1>3 DEF AbsenceExplained, NoFillInvented, Cids, Vanished
<1>9. (\A c \in DOMAIN book : IsOrder(book[c]))'
  BY <1>2 DEF IsOrder
<1> QED BY <1>2, <1>4, <1>5, <1>6, <1>7, <1>8, <1>9 DEF AbsenceExplained

LEMMA TruthDispatchCancel ==
  ASSUME IdsInUse, AbsenceExplained, NEW item \in outbox, DispatchCancel(item)
  PROVE  AbsenceExplained'
<1> DEFINE cid == item.req.cid
<1>1. /\ NoneComesBack /\ UNCHANGED <<acct, started, eligible, pendingPlaces, queue, bookings>> /\ started
      /\ item.req.op = "cancel"
  BY DispatchCancelIds DEF DispatchCancel, trackVars, history, IdsInUse
<1>2. cid \notin ActiveCids
  BY <1>1 DEF IdsInUse, Asked, LegalRequest
<1>3. \/ cid \in Cids("open") /\ book' = [book EXCEPT ![cid].status = "canceled"]
      \/ UNCHANGED book
  BY DEF DispatchCancel, CancelOrder
<1>4. CASE cid \in Cids("open") /\ book' = [book EXCEPT ![cid].status = "canceled"]
  <2> HIDE DEF cid
  <2> QED BY <1>1, <1>2, <1>4, TruthStatus
<1>5. CASE UNCHANGED book
  BY <1>1, <1>5, TruthUntouched
<1> QED BY <1>3, <1>4, <1>5

LEMMA TruthExchange ==
  ASSUME IdsInUse, AbsenceExplained, NEW cid \in DOMAIN book,
         ExchangeFill(cid) \/ OutsideCancel(cid) \/ Redeliver(cid)
  PROVE  AbsenceExplained'
<1>1. NoneComesBack /\ UNCHANGED <<acct, started, eligible, pendingPlaces, queue, bookings>>
  BY ExchangeIds DEF ExchangeFill, OutsideCancel, Redeliver, engineVars, loopVars, trackVars, history
<1>2. CASE ExchangeFill(cid)
  <2>1. cid \in Cids("open") /\ book' = [book EXCEPT ![cid].status = "filled"]
    BY <1>2 DEF ExchangeFill
  <2> QED BY <1>1, <2>1, TruthStatus
<1>3. CASE OutsideCancel(cid)
  <2>1. cid \in Cids("open") /\ book' = [book EXCEPT ![cid].status = "expired"]
    BY <1>3 DEF OutsideCancel
  <2> QED BY <1>1, <2>1, TruthStatus
<1>4. CASE Redeliver(cid)
  <2>1. UNCHANGED book
    BY <1>4 DEF Redeliver
  <2> QED BY <1>1, <2>1, TruthUntouched
<1> QED BY <1>2, <1>3, <1>4

LEMMA TruthStep ==
  ASSUME IdsInUse, AbsenceExplained, [LiveNext]_liveVars
  PROVE  AbsenceExplained'
<1>1. ASSUME \/ EndFills \/ SkipSync \/ ReadPositions \/ EndTick \/ Restart \/ UNCHANGED liveVars
      PROVE  AbsenceExplained'
  <2>1. UNCHANGED <<registry, book, acct, started, eligible, pendingPlaces, queue, bookings>>
    BY <1>1 DEF EndFills, SkipSync, ReadPositions, EndTick, Restart, liveVars, bridgeVars, exchangeVars, engineVars,
       loopVars, trackVars, history
  <2>2. NoneComesBack
    BY <2>1, UntouchedRegistry DEF IdsInUse
  <2> QED BY <2>1, <2>2, TruthUntouched
<1>2. ASSUME NEW cid \in queue, HandleFill(cid) PROVE AbsenceExplained'
  BY <1>2, TruthHandleFill
<1>3. ASSUME NEW item \in outbox, DispatchPlace(item) \/ DispatchCancel(item) PROVE AbsenceExplained'
  BY <1>3, TruthDispatchPlace, TruthDispatchCancel
<1>4. ASSUME Engine PROVE AbsenceExplained'
  BY <1>1, <1>2, <1>3, <1>4, TruthBoot, TruthBeginTick, TruthUserData, TruthReadOrders DEF Engine
<1>5. ASSUME Exchange PROVE AbsenceExplained'
  BY <1>5, TruthExchange DEF Exchange
<1> QED BY <1>1, <1>4, <1>5, TruthCrash DEF LiveNext

\* I8 and 17.4: no fill is invented, through crashes, restarts, rejections, time-outs and
\* redeliveries: what is booked has filled, or was cancelled by somebody else, or was lost on
\* its way to the exchange, and never rests, was refused or was cancelled by the grid.
THEOREM NoFillIsInvented == LiveSpec => []NoFillInvented
<1>1. LiveInit => IdsInUse /\ AbsenceExplained
  <2> SUFFICES ASSUME LiveInit PROVE IdsInUse /\ AbsenceExplained
    OBVIOUS
  <2>1. /\ DOMAIN book = {} /\ DOMAIN bookings = {} /\ queue = {} /\ eligible = {} /\ acct = NoAcct
        /\ DOMAIN entryReg = {} /\ DOMAIN exitReg = {}
    BY DEF LiveInit
  <2> QED BY <2>1, LiveInitIds DEF AbsenceExplained, NoFillInvented, ActiveCids
<1>2. IdsInUse /\ AbsenceExplained /\ [LiveNext]_liveVars => (IdsInUse /\ AbsenceExplained)'
  BY LiveIds, TruthStep
<1>3. AbsenceExplained => NoFillInvented
  BY DEF AbsenceExplained
<1> QED BY <1>1, <1>2, <1>3, PTL DEF LiveSpec
=============================================================================
