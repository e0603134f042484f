---------------------------- MODULE TradingProofs ----------------------------
(***************************************************************************)
(* What trades: the user-data stream is closed behind the loop, the ladder *)
(* that rests holds one entry per rung, the machine that believes itself   *)
(* flat is flat, the loss streak survives restarts, and the rolling ladder *)
(* moves for fills alone.                                                  *)
(***************************************************************************)
EXTENDS UserStream, GridWatchdog, FillIngestion, RollingLadder, FiniteSetTheorems, WellFoundedInduction, TLAPS

-----------------------------------------------------------------------------
\* Proofs about the user-data stream: its types, and that nothing of it outlives
\* run_user_data_loop.

\* Between two attempts, and after the last, the keeper is through, no socket is open and
\* the key held last was given back or its deletion tried; or close() was cut short.
CutShort == conn.closed /\ conn.state # "CLOSED" /\ reader.canceled
AtRest ==
  reader.at \in {"next", "over"} =>
    /\ keeper.at \in {"none", "done"}
    /\ \/ conn.socket # "open" /\ (conn.key = 0 \/ conn.key \in keys.deleted)
       \/ reader.at = "over" /\ CutShort

\* During an attempt the connector is not CLOSED yet, and while close() waits the keeper
\* is through.
InClose == {"parting", "hanging"}
Midway == {"dialling", "reading", "redialling", "resting", "backoff", "closing"}
Going == {c \in Connectors : c.state # "CLOSED"}
InAttempt ==
  /\ reader.at \notin {"next", "over"} => conn \in Going
  /\ reader.at \in InClose => keeper.at \in {"none", "done"} /\ conn.closed

StreamInv == StreamTypeOK /\ AtRest /\ InAttempt

\* What ends an attempt leaves a reader that closes or backs off first.
LEMMA AfterErrorForms ==
  ASSUME NEW r \in Readers
  PROVE  AfterError(r) \in ReadersAt({"closing", "backoff"}) /\ Ends(r) \in ReadersAt({"closing"})
<1> USE DEF Readers, ReadersAt
<1>1. [r EXCEPT !.at = "closing", !.then = "over"] \in ReadersAt({"closing"})
  OBVIOUS
<1>2. [r EXCEPT !.at = "backoff", !.attempt = @ + 1] \in ReadersAt({"backoff"})
  <2>1. r.attempt + 1 \in Nat
    OBVIOUS
  <2> QED BY <2>1
<1>3. [r EXCEPT !.at = "closing", !.attempt = @ + 1, !.then = "over"] \in ReadersAt({"closing"})
  <2>1. r.attempt + 1 \in Nat
    OBVIOUS
  <2> QED BY <2>1
<1>4. AfterError(r) \in ReadersAt({"closing"}) \cup ReadersAt({"backoff"})
  <2> HIDE DEF Readers, ReadersAt
  <2> QED BY <1>1, <1>2, <1>3 DEF AfterError
<1>5. ReadersAt({"closing"}) \cup ReadersAt({"backoff"}) \subseteq ReadersAt({"closing", "backoff"})
  OBVIOUS
<1> QED BY <1>1, <1>4, <1>5 DEF Ends

LEMMA EndedForms ==
  \A r \in Readers : /\ [Ends(r) EXCEPT !.canceled = TRUE] \in Readers
                     /\ [Ends(r) EXCEPT !.canceled = TRUE].at \in {"closing", "backoff"}
  BY DEF Ends, Readers, ReadersAt

\* A new key, a deleted one, one whose deletion failed: deletions are remembered.
LEMMA CreatedForms ==
  ASSUME NEW k \in KeyRings
  PROVE  Created(k) \in KeyRings /\ Created(k).deleted = k.deleted /\ k.made + 1 \in Nat
<1>1. k.made + 1 \in Nat /\ k.live \cup {k.made + 1} \in SUBSET Nat
  BY DEF KeyRings
<1> QED BY <1>1 DEF KeyRings, Created

LEMMA DeletedForms ==
  ASSUME NEW k \in KeyRings, NEW key \in Nat
  PROVE  /\ Deleted(k, key) \in KeyRings
         /\ key = 0 \/ key \in Deleted(k, key).deleted
<1>1. k.live \ {key} \in SUBSET Nat /\ k.deleted \cup {key} \in SUBSET Nat
  BY DEF KeyRings
<1>2. Deleted(k, key) \in KeyRings
  BY <1>1 DEF KeyRings, Deleted
<1>3. key = 0 \/ key \in Deleted(k, key).deleted
  BY DEF KeyRings, Deleted
<1> QED BY <1>2, <1>3

LEMMA CancelledForms ==
  ASSUME NEW k \in Keepers
  PROVE  Cancelled(k) \in Keepers /\ Cancelled(k).at \in {"none", "done"}
  BY DEF Keepers, Cancelled

\* The connector after the assignments its methods make.
LEMMA ConnectorForms ==
  /\ \A c \in Connectors, s \in {"DISCONNECTED", "CONNECTING"} : [c EXCEPT !.state = s] \in Going
  /\ \A c \in Connectors : [c EXCEPT !.state = "CONNECTED", !.socket = "open"] \in Going
  /\ \A c \in Connectors, n \in Nat : [c EXCEPT !.state = "CONNECTING", !.key = n] \in Going
  /\ \A c \in Connectors, n \in Nat :
       [c EXCEPT !.state = "CONNECTING", !.socket = "none", !.key = n] \in Going
  /\ \A c \in Connectors, s \in {"none", "open", "dropped"} :
       [c EXCEPT !.state = "RECONNECTING", !.socket = s] \in Going
  /\ Unconnected \in Connectors /\ [Unconnected EXCEPT !.state = "CONNECTING"] \in Going
  /\ \A c \in Connectors : c.key \in Nat /\ c.socket \in {"none", "open", "dropped"}
<1>1. \A c \in Connectors, s \in {"DISCONNECTED", "CONNECTING"} : [c EXCEPT !.state = s] \in Going
  BY DEF Connectors, Going
<1>2. \A c \in Connectors : [c EXCEPT !.state = "CONNECTED", !.socket = "open"] \in Going
  BY DEF Connectors, Going
<1>3. \A c \in Connectors, n \in Nat : [c EXCEPT !.state = "CONNECTING", !.key = n] \in Going
  BY DEF Connectors, Going
<1>4. \A c \in Connectors, n \in Nat : [c EXCEPT !.state = "CONNECTING", !.socket = "none", !.key = n] \in Going
  BY DEF Connectors, Going
<1>5. Unconnected \in Connectors /\ [Unconnected EXCEPT !.state = "CONNECTING"] \in Going
  BY DEF Connectors, Going, Unconnected
<1>6. \A c \in Connectors : c.key \in Nat /\ c.socket \in {"none", "open", "dropped"}
  BY DEF Connectors
<1>7. \A c \in Connectors, s \in {"none", "open", "dropped"} :
        [c EXCEPT !.state = "RECONNECTING", !.socket = s] \in Going
  BY DEF Connectors, Going
<1> QED BY <1>1, <1>2, <1>3, <1>4, <1>5, <1>6, <1>7

\* The reader after an assignment that leaves it waiting in the middle of an attempt.
LEMMA WaitingForms ==
  /\ \A r \in Readers, a \in {"dialling", "reading", "redialling", "resting"} :
       [r EXCEPT !.at = a] \in Readers /\ [r EXCEPT !.at = a].at = a
  /\ \A r \in Readers, a \in {"dialling", "redialling"} :
       [r EXCEPT !.at = a, !.redials = 0] \in Readers /\ [r EXCEPT !.at = a, !.redials = 0].at = a
  /\ \A r \in Readers : /\ [r EXCEPT !.redials = @ + 1] \in Readers /\ [r EXCEPT !.redials = @ + 1].at = r.at
                        /\ [r EXCEPT !.redials = 0] \in Readers
                        /\ [r EXCEPT !.at = "resting", !.redials = 1] \in Readers
                        /\ [r EXCEPT !.at = "resting", !.redials = 1].at = "resting"
                        /\ [r EXCEPT !.at = "resting", !.redials = @ + 1] \in Readers
                        /\ [r EXCEPT !.at = "resting", !.redials = @ + 1].at = "resting"
  /\ \A r \in ReadersAt({"closing", "backoff"}) \cup ReadersAt({"closing"}) :
       r \in Readers /\ r.at \in {"closing", "backoff"}
  /\ \A r \in Readers : [r EXCEPT !.canceled = TRUE] \in Readers /\ [r EXCEPT !.canceled = TRUE].at = r.at
<1>1. \A r \in Readers, a \in {"dialling", "reading", "redialling", "resting"} :
        [r EXCEPT !.at = a] \in Readers /\ [r EXCEPT !.at = a].at = a
  BY DEF Readers, ReadersAt
<1>2. \A r \in Readers, a \in {"dialling", "redialling"} :
        [r EXCEPT !.at = a, !.redials = 0] \in Readers /\ [r EXCEPT !.at = a, !.redials = 0].at = a
  BY DEF Readers, ReadersAt
<1>3. ASSUME NEW r \in Readers
      PROVE  /\ [r EXCEPT !.redials = @ + 1] \in Readers /\ [r EXCEPT !.redials = @ + 1].at = r.at
             /\ [r EXCEPT !.redials = 0] \in Readers
             /\ [r EXCEPT !.at = "resting", !.redials = 1] \in Readers
             /\ [r EXCEPT !.at = "resting", !.redials = 1].at = "resting"
             /\ [r EXCEPT !.at = "resting", !.redials = @ + 1] \in Readers
             /\ [r EXCEPT !.at = "resting", !.redials = @ + 1].at = "resting"
  <2>1. r.redials + 1 \in Nat /\ 1 \in Nat
    BY DEF Readers, ReadersAt
  <2> QED BY <2>1 DEF Readers, ReadersAt
<1>4. \A r \in ReadersAt({"closing", "backoff"}) \cup ReadersAt({"closing"}) :
        r \in Readers /\ r.at \in {"closing", "backoff"}
  BY DEF Readers, ReadersAt
<1>5. \A r \in Readers : [r EXCEPT !.canceled = TRUE] \in Readers /\ [r EXCEPT !.canceled = TRUE].at = r.at
  BY DEF Readers, ReadersAt
<1> QED BY <1>1, <1>2, <1>3, <1>4, <1>5

\* The reader keeps its types, and where it may be after a step.
LEMMA ReaderKeeps ==
  ASSUME StreamInv, Attempt \/ AttemptFails \/ Dials \/ DialFails \/ Redials \/ Receives \/ StreamEnds
                      \/ BacksOff \/ Closes \/ KeeperParts \/ HangsUp \/ Canceled
  PROVE  StreamInv'
<1> USE DEF Midway
<1>0. /\ reader \in Readers /\ conn \in Connectors /\ keeper \in Keepers /\ keys \in KeyRings /\ conn.key \in Nat
      /\ stop \in {"no", "asked", "set", "left"} /\ faults \in 0..MaxFaults /\ sent \in 0..MaxMessages
  BY DEF StreamInv, StreamTypeOK, Connectors
<1>a. stop' = stop /\ sent' = sent
  BY DEF Attempt, AttemptFails, Dials, DialFails, Redials, Receives, StreamEnds, BacksOff, Closes, KeeperParts,
      HangsUp, Canceled
<1>b. faults' \in 0..MaxFaults
  <2>1. ASSUME ReaderReconnects PROVE faults' = faults \/ Fault
    BY <2>1, Zenon DEF ReaderReconnects
  <2>2. ASSUME ~ReaderReconnects PROVE faults' = faults \/ Fault
    BY <2>2
    DEF Attempt, AttemptFails, Dials, DialFails, Redials, Receives, StreamEnds, BacksOff, Closes,
        KeeperParts, HangsUp, Canceled
  <2>3. ASSUME faults' = faults \/ Fault PROVE faults' \in 0..MaxFaults
    BY <1>0, <2>3, StreamAssumption DEF Fault
  <2> QED BY <2>1, <2>2, <2>3
<1>c. ASSUME reader' \in Readers, reader'.at \in Midway,
             conn' \in Going, keeper' \in Keepers, keys' \in KeyRings
      PROVE  StreamInv'
  BY <1>0, <1>a, <1>b, <1>c DEF StreamInv, StreamTypeOK, AtRest, InAttempt, InClose, Going
<1>d. reader.at \notin {"next", "over"} => conn \in Going
  BY DEF StreamInv, InAttempt
<1>1. CASE Attempt
  <2>1. CASE stop = "set"
    <3>1. reader' = [reader EXCEPT !.at = "over"] /\ reader.at = "next" /\ UNCHANGED <<conn, keys, keeper>>
      BY <1>1, <2>1 DEF Attempt
    <3>2. reader' \in Readers
      BY <1>0, <3>1 DEF Readers, ReadersAt
    <3> QED BY <1>0, <1>a, <1>b, <3>1, <3>2 DEF StreamInv, StreamTypeOK, AtRest, InAttempt, InClose
  <2>2. CASE stop # "set"
    <3>1. /\ reader' = [reader EXCEPT !.at = "dialling", !.redials = 0] /\ keys' = Created(keys) /\ keeper' = keeper
          /\ conn' = [Unconnected EXCEPT !.state = "CONNECTING", !.key = keys.made + 1]
      BY <1>1, <2>2 DEF Attempt
    <3> QED <4>1. keys' \in KeyRings /\ keys.made + 1 \in Nat
        BY <1>0, <3>1, CreatedForms
      <4>2. reader' \in Readers /\ reader'.at = "dialling"
        BY <1>0, <3>1, WaitingForms
      <4> QED BY <1>0, <1>c, <3>1, <4>1, <4>2, ConnectorForms
  <2> QED BY <2>1, <2>2
<1>2. CASE AttemptFails
  <2>1. /\ reader' = AfterError([reader EXCEPT !.redials = 0]) /\ UNCHANGED <<keeper, keys>>
        /\ conn' = [Unconnected EXCEPT !.state = "CONNECTING"]
    BY <1>2 DEF AttemptFails
  <2> QED BY <1>0, <1>c, <2>1, WaitingForms, AfterErrorForms, ConnectorForms
<1>3. CASE Dials
  <2>1. /\ reader' = [reader EXCEPT !.at = "reading"] /\ keys' = keys
        /\ conn' = [conn EXCEPT !.state = "CONNECTED", !.socket = "open"]
        /\ keeper' = [at |-> "sleeping", redials |-> 0]
    BY <1>3 DEF Dials, Opened
  <2>2. keeper' \in Keepers
    BY <2>1 DEF Keepers
  <2> QED BY <1>0, <1>c, <2>1, <2>2, WaitingForms, ConnectorForms
<1>4. CASE DialFails
  <2>1. PICK s \in {"DISCONNECTED", "CONNECTING"} : conn' = [conn EXCEPT !.state = s]
    BY <1>4 DEF DialFails
  <2>2. /\ UNCHANGED <<keeper, keys>>
        /\ reader' = AfterError(reader) \/ reader' = [reader EXCEPT !.at = "resting", !.redials = @ + 1]
    BY <1>4 DEF DialFails
  <2>3. reader' \in Readers /\ reader'.at \in Midway
    <3>1. CASE reader' = AfterError(reader)
      BY <1>0, <3>1, WaitingForms, AfterErrorForms
    <3>2. CASE reader' = [reader EXCEPT !.at = "resting", !.redials = @ + 1]
      BY <1>0, <3>2, WaitingForms
    <3> QED BY <2>2, <3>1, <3>2
  <2> QED BY <1>0, <1>c, <2>1, <2>2, <2>3, ConnectorForms
<1>5. CASE Redials
  <2>1. CASE /\ keys' = Created(keys) /\ reader' = [reader EXCEPT !.at = "redialling"]
             /\ conn' = [conn EXCEPT !.state = "CONNECTING", !.key = keys.made + 1] /\ keeper' = keeper
    <3>1. keys' \in KeyRings /\ keys.made + 1 \in Nat
      BY <1>0, <2>1, CreatedForms
    <3>2. reader' \in Readers /\ reader'.at = "redialling"
      BY <1>0, <2>1, WaitingForms
    <3> QED BY <1>0, <1>c, <2>1, <3>1, <3>2, ConnectorForms
  <2>2. CASE /\ UNCHANGED <<keys, keeper>> /\ reader.at = "resting" /\ reader' = [reader EXCEPT !.redials = @ + 1]
             /\ conn' = [conn EXCEPT !.state = "CONNECTING"]
    BY <1>0, <1>c, <2>2, WaitingForms, ConnectorForms
  <2>3. CASE /\ UNCHANGED <<keys, keeper>> /\ reader' = AfterError(reader)
             /\ conn' = [conn EXCEPT !.state = "DISCONNECTED"]
    BY <1>0, <1>c, <2>3, WaitingForms, AfterErrorForms, ConnectorForms
  <2> QED BY <1>5, <2>1, <2>2, <2>3 DEF Redials
<1>6. CASE Receives
  <2>1. CASE ReaderReconnects
    <3>1. keeper' \in Keepers
      BY <1>0, <2>1 DEF ReaderReconnects, Keepers
    <3>2. ASSUME NEW c \in BOOLEAN, keys' = Created(Deleted(keys, conn.key)),
                 reader' = [reader EXCEPT !.at = "redialling", !.redials = 0, !.canceled = c],
                 conn' = [conn EXCEPT !.state = "CONNECTING", !.socket = "none", !.key = keys.made + 1]
          PROVE  StreamInv'
      <4>1. keys' \in KeyRings /\ keys.made + 1 \in Nat
        BY <1>0, <3>2, CreatedForms, DeletedForms
      <4>2. reader' \in Readers /\ reader'.at = "redialling"
        BY <1>0, <3>2 DEF Readers, ReadersAt
      <4>3. conn' \in Going
        BY <1>0, <3>2, <4>1, ConnectorForms
      <4> QED BY <1>c, <3>1, <4>1, <4>2, <4>3
    <3>3. ASSUME NEW c \in BOOLEAN, keys' = Deleted(keys, conn.key),
                 reader' = [reader EXCEPT !.at = "resting", !.redials = 1, !.canceled = c],
                 conn' = [conn EXCEPT !.state = "CONNECTING", !.socket = "none", !.key = 0]
          PROVE  StreamInv'
      <4>1. keys' \in KeyRings
        BY <1>0, <3>3, DeletedForms
      <4>2. reader' \in Readers /\ reader'.at = "resting"
        BY <1>0, <3>3 DEF Readers, ReadersAt
      <4>3. conn' \in Going
        BY <1>0, <3>3, ConnectorForms
      <4> QED BY <1>c, <3>1, <4>1, <4>2, <4>3
    <3>4. ASSUME NEW left \in HalfClosed, conn' = [conn EXCEPT !.state = "RECONNECTING", !.socket = left],
                 reader' = [Ends(reader) EXCEPT !.canceled = TRUE], keys' = keys
          PROVE  StreamInv'
      <4>1. conn' \in Going
        BY <1>0, <3>4, ConnectorForms DEF HalfClosed
      <4>2. reader' \in Readers /\ reader'.at \in {"closing", "backoff"}
        BY <1>0, <3>4, EndedForms
      <4> QED BY <1>0, <1>c, <3>1, <3>4, <4>1, <4>2
    <3> QED BY <2>1, <3>2, <3>3, <3>4 DEF ReaderReconnects, Unheeded
  <2>2. CASE UNCHANGED <<conn, keeper, keys>>
    <3>1. /\ reader.at = "reading"
          /\ reader' = reader \/ reader' = Ends(reader) \/ reader' = AfterError(reader) \/ ReaderReconnects
      BY <1>6 DEF Receives
    <3>2. CASE reader' = reader \/ reader' = Ends(reader) \/ reader' = AfterError(reader)
      <4>1. reader' \in Readers /\ reader'.at \in Midway
        <5>1. CASE reader' = reader
          BY <1>0, <3>1, <5>1
        <5>2. CASE reader' = Ends(reader)
          BY <1>0, <5>2, WaitingForms, AfterErrorForms
        <5>3. CASE reader' = AfterError(reader)
          BY <1>0, <5>3, WaitingForms, AfterErrorForms
        <5> QED BY <3>2, <5>1, <5>2, <5>3
      <4>2. conn' \in Going
        BY <1>d, <2>2, <3>1
      <4> QED BY <1>0, <1>c, <2>2, <4>1, <4>2
    <3> QED BY <2>1, <3>1, <3>2
  <2> QED BY <1>6, <2>1, <2>2 DEF Receives
<1>7. CASE StreamEnds
  <2>1. reader' = Ends(reader) /\ UNCHANGED <<conn, keeper, keys>> /\ reader.at = "reading"
    BY <1>7 DEF StreamEnds
  <2> QED BY <1>0, <1>c, <1>d, <2>1, WaitingForms, AfterErrorForms
<1>8. CASE BacksOff
  <2>1. /\ reader' = [reader EXCEPT !.at = "closing", !.then = IF stop = "set" THEN "over" ELSE "next"]
        /\ UNCHANGED <<conn, keeper, keys>> /\ reader.at = "backoff"
    BY <1>8 DEF BacksOff
  <2>2. reader' \in Readers /\ reader'.at = "closing"
    BY <1>0, <2>1 DEF Readers, ReadersAt
  <2> QED BY <1>0, <1>c, <1>d, <2>1, <2>2
<1>9. CASE Closes
  <2>1. keeper' \in Keepers /\ keeper'.at \in {"none", "done"}
    BY <1>0, <1>9, CancelledForms DEF Closes
  <2>2. conn' = [conn EXCEPT !.closed = TRUE] /\ conn \in Going /\ keys' = keys
    BY <1>9, <1>d DEF Closes
  <2>3. conn' \in Going /\ conn'.closed
    BY <1>0, <2>2 DEF Connectors, Going
  <2>4. reader' \in Readers /\ reader'.at \in InClose
    BY <1>0, <1>9 DEF Closes, Readers, ReadersAt, InClose
  <2> QED BY <1>0, <1>a, <1>b, <2>1, <2>2, <2>3, <2>4
          DEF StreamInv, StreamTypeOK, AtRest, InAttempt, Going, InClose
<1>10. CASE KeeperParts
  <2>1. reader' = [reader EXCEPT !.at = "hanging"] /\ reader.at = "parting" /\ UNCHANGED <<conn, keeper, keys>>
    BY <1>10 DEF KeeperParts
  <2>2. reader' \in Readers /\ reader'.at = "hanging"
    BY <1>0, <2>1 DEF Readers, ReadersAt
  <2> QED BY <1>0, <1>a, <1>b, <2>1, <2>2 DEF StreamInv, StreamTypeOK, AtRest, InAttempt, InClose
<1>11. CASE HangsUp
  <2>1. keeper' = keeper /\ keeper.at \in {"none", "done"} /\ reader.at = "hanging"
    BY <1>11 DEF HangsUp, StreamInv, InAttempt, InClose
  <2>2. keys' \in KeyRings /\ (conn.key = 0 \/ conn.key \in keys'.deleted)
    <3>1. CASE keys' = Deleted(keys, conn.key)
      BY <1>0, <3>1, DeletedForms
    <3>2. CASE keys' = [keys EXCEPT !.deleted = @ \cup {conn.key}]
      BY <1>0, <3>2 DEF KeyRings
    <3> QED BY <1>11, <3>1, <3>2 DEF HangsUp
  <2>3. conn' = [conn EXCEPT !.state = "CLOSED", !.socket = "none"]
    BY <1>11 DEF HangsUp
  <2>4. conn' \in Connectors /\ conn'.socket = "none" /\ conn'.key = conn.key
    BY <1>0, <2>3 DEF Connectors
  <2>5. reader' = [reader EXCEPT !.at = reader.then]
    BY <1>11 DEF HangsUp
  <2>6. reader' \in Readers /\ reader'.at \in {"next", "over"}
    BY <1>0, <2>5 DEF Readers, ReadersAt
  <2> QED BY <1>0, <1>a, <1>b, <2>1, <2>2, <2>4, <2>6 DEF StreamInv, StreamTypeOK, AtRest, InAttempt, InClose
<1>12. CASE Canceled
  <2>1. UNCHANGED <<keeper, keys>>
    BY <1>12 DEF Canceled
  <2>2. CASE /\ reader.at \in {"dialling", "reading", "redialling", "resting", "backoff"}
             /\ reader' = [Ends(reader) EXCEPT !.canceled = TRUE] /\ conn' = conn
    <3>1. reader' \in Readers /\ reader'.at \in {"closing", "backoff"}
      BY <1>0, <2>2, EndedForms
    <3> QED BY <1>0, <1>c, <1>d, <2>1, <2>2, <3>1
  <2>3. CASE reader.at = "parting" /\ reader' = [reader EXCEPT !.canceled = TRUE] /\ conn' = conn
    <3>1. reader' \in Readers /\ reader'.at = "parting"
      BY <1>0, <2>3, WaitingForms
    <3> QED BY <1>0, <1>a, <1>b, <2>1, <2>3, <3>1 DEF StreamInv, StreamTypeOK, AtRest, InAttempt, InClose
  <2>4. ASSUME NEW left \in HalfClosed, reader.at = "hanging", conn' = [conn EXCEPT !.socket = left],
               reader' = [reader EXCEPT !.at = "over", !.canceled = TRUE]
        PROVE  StreamInv'
    <3>1. reader' \in Readers /\ reader'.at = "over" /\ reader'.canceled
      BY <1>0, <2>4 DEF Readers, ReadersAt
    <3>2. conn \in Going /\ conn.closed /\ keeper.at \in {"none", "done"}
      BY <1>d, <2>4 DEF StreamInv, InAttempt, InClose
    <3>3. conn' \in Connectors /\ conn'.closed /\ conn'.state # "CLOSED"
      BY <2>4, <3>2 DEF Connectors, Going, HalfClosed
    <3> QED BY <1>0, <1>a, <1>b, <2>1, <3>1, <3>2, <3>3
            DEF StreamInv, StreamTypeOK, AtRest, InAttempt, InClose, CutShort
  <2> QED BY <1>12, <2>2, <2>3, <2>4 DEF Canceled
<1> QED BY <1>1, <1>2, <1>3, <1>4, <1>5, <1>6, <1>7, <1>8, <1>9, <1>10, <1>11, <1>12

\* A keeper that moves was running, so the reader is between no two attempts.
LEMMA KeeperKeeps ==
  ASSUME StreamInv, KeepsAlive \/ KeepaliveFails \/ KeeperCreates \/ KeeperDials \/ KeeperDialFails
  PROVE  StreamInv'
<1>0. /\ reader \in Readers /\ conn \in Connectors /\ keeper \in Keepers /\ keys \in KeyRings /\ conn.key \in Nat
      /\ stop \in {"no", "asked", "set", "left"} /\ faults \in 0..MaxFaults /\ sent \in 0..MaxMessages
  BY DEF StreamInv, StreamTypeOK, Connectors
<1>1. keeper.at \notin {"none", "done"} /\ UNCHANGED <<reader, stop, sent>>
  BY DEF KeepsAlive, KeepaliveFails, KeeperCreates, KeeperDials, KeeperDialFails
<1>2. faults' \in 0..MaxFaults
  BY <1>0, StreamAssumption DEF KeepsAlive, KeepaliveFails, KeeperCreates, KeeperDials, KeeperDialFails, Fault
<1>a. reader.at \notin {"next", "over"} \cup InClose /\ conn \in Going
  BY <1>1 DEF StreamInv, AtRest, InAttempt
<1>3. ASSUME conn' \in Going, keeper' \in Keepers, keys' \in KeyRings PROVE StreamInv'
  BY <1>0, <1>1, <1>2, <1>a, <1>3 DEF StreamInv, StreamTypeOK, AtRest, InAttempt, Going
<1>4. CASE KeepsAlive
  <2>1. UNCHANGED <<conn, keys>> /\ keeper' = [keeper EXCEPT !.at = IF conn.state = "CONNECTED" THEN @ ELSE "done"]
    BY <1>4 DEF KeepsAlive
  <2>2. keeper' \in Keepers
    BY <1>0, <2>1 DEF Keepers
  <2> QED BY <1>0, <1>a, <1>3, <2>1, <2>2
<1>5. CASE KeepaliveFails
  <2>1. /\ keeper' = [at |-> "closing", redials |-> 0] /\ keys' = keys
        /\ conn' = [conn EXCEPT !.state = "RECONNECTING", !.socket = IF @ = "open" THEN "dropped" ELSE @]
    BY <1>5 DEF KeepaliveFails
  <2>2. keeper' \in Keepers
    BY <2>1 DEF Keepers
  <2>3. conn' \in Going
    BY <1>0, <2>1 DEF Connectors, Going
  <2> QED BY <1>0, <1>3, <2>1, <2>2, <2>3
<1>6. CASE KeeperCreates
  <2> DEFINE left == IF keeper.at = "closing" THEN Deleted(keys, conn.key) ELSE keys
  <2>1. left \in KeyRings
    BY <1>0, DeletedForms
  <2>2. keys.made + 1 \in Nat /\ keeper.redials + 1 \in Nat
    BY <1>0, CreatedForms DEF Keepers
  <2>3. CASE /\ keys' = Created(left) /\ keeper' = [keeper EXCEPT !.at = "dialling"]
             /\ conn' = [conn EXCEPT !.state = "CONNECTING", !.socket = "none", !.key = keys.made + 1]
    <3>1. keeper' \in Keepers
      BY <1>0, <2>3 DEF Keepers
    <3> QED BY <1>0, <1>3, <2>1, <2>2, <2>3, <3>1, CreatedForms, ConnectorForms
  <2>4. CASE /\ keys' = left /\ keeper' = [at |-> "resting", redials |-> keeper.redials + 1]
             /\ conn' = [conn EXCEPT !.state = "CONNECTING", !.socket = "none",
                                     !.key = IF keeper.at = "closing" THEN 0 ELSE @]
    <3>1. keeper' \in Keepers
      BY <2>2, <2>4 DEF Keepers
    <3>2. conn' \in Going
      BY <1>0, <2>4 DEF Connectors, Going
    <3> QED BY <1>3, <2>1, <2>4, <3>1, <3>2
  <2>5. CASE /\ keys' = keys /\ keeper' = [keeper EXCEPT !.at = "done"]
             /\ conn' = [conn EXCEPT !.state = "DISCONNECTED"]
    <3>1. keeper' \in Keepers
      BY <1>0, <2>5 DEF Keepers
    <3> QED BY <1>0, <1>3, <2>5, <3>1, ConnectorForms
  <2> QED BY <1>6, <2>3, <2>4, <2>5 DEF KeeperCreates
<1>7. CASE KeeperDials
  <2>1. /\ keeper' = [at |-> "sleeping", redials |-> 0] /\ keys' = keys
        /\ conn' = [conn EXCEPT !.state = "CONNECTED", !.socket = "open"]
    BY <1>7 DEF KeeperDials, Opened
  <2>2. keeper' \in Keepers
    BY <2>1 DEF Keepers
  <2> QED BY <1>0, <1>3, <2>1, <2>2, ConnectorForms
<1>8. CASE KeeperDialFails
  <2>1. PICK s \in {"DISCONNECTED", "CONNECTING"} : conn' = [conn EXCEPT !.state = s]
    BY <1>8 DEF KeeperDialFails
  <2>2. keeper' = [at |-> "resting", redials |-> keeper.redials + 1] /\ keys' = keys
    BY <1>8 DEF KeeperDialFails
  <2>3. keeper' \in Keepers
    BY <1>0, <2>2 DEF Keepers
  <2> QED BY <1>0, <1>3, <2>1, <2>2, <2>3, ConnectorForms
<1> QED BY <1>4, <1>5, <1>6, <1>7, <1>8

LEMMA AroundKeeps ==
  ASSUME StreamInv, Arrives \/ KeyExpires \/ SocketDrops \/ StopAsked \/ BridgeShutdown \/ TradingLeaves
  PROVE  StreamInv'
<1> USE StreamAssumption DEF StreamInv, StreamTypeOK, AtRest, InAttempt, CutShort, Fault
<1>1. CASE Arrives
  BY <1>1 DEF Arrives
<1>2. CASE KeyExpires
  <2>1. /\ conn.socket = "open" /\ keys' = [keys EXCEPT !.live = @ \ {conn.key}]
        /\ UNCHANGED <<reader, conn, keeper, stop, sent>> /\ faults' \in 0..MaxFaults
    BY <1>2 DEF KeyExpires
  <2>2. keys' \in KeyRings
    BY <2>1 DEF KeyRings
  <2> QED BY <2>1, <2>2
<1>3. CASE SocketDrops
  <2>1. /\ conn.socket = "open" /\ conn' = [conn EXCEPT !.socket = "dropped"]
        /\ UNCHANGED <<reader, keeper, keys, stop, sent>> /\ faults' \in 0..MaxFaults
    BY <1>3 DEF SocketDrops
  <2>2. conn' \in Connectors /\ conn'.state = conn.state /\ conn'.key = conn.key /\ conn'.closed = conn.closed
    BY <2>1 DEF Connectors
  <2>3. conn \in Going => conn' \in Going
    BY <2>2 DEF Going
  <2> QED BY <2>1, <2>2, <2>3
<1>4. CASE StopAsked \/ BridgeShutdown \/ TradingLeaves
  BY <1>4 DEF StopAsked, BridgeShutdown, TradingLeaves
<1> QED BY <1>1, <1>2, <1>3, <1>4

\* The types and the rest between two attempts are an inductive invariant: a task of the
\* stream can run only where the other one let it.
LEMMA StreamInvariant == USSpec => []StreamInv
<1>1. USInit => StreamInv
  BY StreamAssumption DEF USInit, StreamInv, StreamTypeOK, AtRest, InAttempt, InClose, Unconnected, Readers,
       ReadersAt, Connectors, Keepers, KeyRings
<1>2. StreamInv /\ [USNext]_usVars => StreamInv'
  <2>1. ASSUME StreamInv, UNCHANGED usVars PROVE StreamInv'
    BY <2>1 DEF StreamInv, StreamTypeOK, AtRest, InAttempt, CutShort, usVars
  <2> QED BY <2>1, ReaderKeeps, KeeperKeeps, AroundKeeps DEF USNext
<1> QED BY <1>1, <1>2, PTL DEF USSpec

\* The connector, both tasks and the listen keys keep their types.
THEOREM StreamTypeCorrect == USSpec => []StreamTypeOK
<1>1. StreamInv => StreamTypeOK
  BY DEF StreamInv
<1> QED BY <1>1, StreamInvariant, PTL

\* For every number of restarts, redials, keys and faults: once run_user_data_loop is over,
\* not even a keepalive in the middle of its own reconnect runs on; no socket is open and
\* no listen key is left that nobody tried to delete last, but where the one cancel of the
\* task fell on close() while it hung up.
THEOREM NothingLeftHolds == USSpec => []NothingLeftRunning
<1>1. StreamInv => NothingLeftRunning
  BY DEF StreamInv, AtRest, CutShort, NothingLeftRunning
<1> QED BY <1>1, StreamInvariant, PTL

-----------------------------------------------------------------------------
\* Proofs about the watchdog of the resting ladder: no repair, resize or rebuild leaves
\* two entries in one slot.

WatchSlots == (0..2) \X Int
IsLadder(f) == f = [i \in DOMAIN f |-> f[i]] /\ DOMAIN f \subseteq WatchIds /\ \A i \in DOMAIN f : f[i] \in WatchSlots
IsWindow(slots) == slots \in SUBSET WatchSlots /\ IsFiniteSet(slots) /\ Cardinality(slots) <= 2 * WatchLevels

WatchTyped ==
  /\ IsLadder(venue) /\ unheard \in Seq(WatchIds \X WatchSlots) /\ holding \in Int
  /\ DOMAIN answer = {"orders", "pos", "again"} /\ answer.pos \in Int
  /\ DOMAIN grid = {"mode", "ref", "window", "exits"} /\ grid.ref \in Int /\ IsWindow(grid.window)
  /\ DOMAIN work = DOMAIN NoWork /\ IsLadder(work.seeds) /\ IsLadder(work.places)
  /\ DOMAIN seeding = DOMAIN NoSeeds /\ IsLadder(seeding.left)

-----------------------------------------------------------------------------
\* Maps and rungs.

LEMMA LessFacts ==
  ASSUME NEW f, NEW ids
  PROVE  DOMAIN Less(f, ids) = DOMAIN f \ ids /\ \A i \in DOMAIN f \ ids : Less(f, ids)[i] = f[i]
BY DEF Less

LEMMA NoneFacts == DOMAIN None = {} /\ IsLadder(None)
BY DEF None, IsLadder

LEMMA LadderLess ==
  ASSUME NEW f, IsLadder(f), NEW ids
  PROVE  IsLadder(Less(f, ids))
BY DEF Less, IsLadder

LEMMA LadderJoined ==
  ASSUME NEW f, IsLadder(f), NEW g, IsLadder(g)
  PROVE  IsLadder(Joined(f, g))
BY DEF Joined, IsLadder

LEMMA RungFacts ==
  ASSUME NEW side \in {BuySide, SellSide}, NEW ref \in Int
  PROVE  /\ Rung(side, ref) \in SUBSET WatchSlots /\ IsFiniteSet(Rung(side, ref))
         /\ Cardinality(Rung(side, ref)) \in Nat /\ Cardinality(Rung(side, ref)) <= WatchLevels
<1> DEFINE rung == [i \in 1..WatchLevels |-> <<side, IF side = BuySide THEN ref - i ELSE ref + i>>]
<1>1. WatchLevels \in Nat /\ 1 \in Int /\ WatchLevels \in Int
  BY WatchdogAssumption
<1>2. IsFiniteSet(1..WatchLevels) /\ Cardinality(1..WatchLevels) = WatchLevels
  <2>1. IsFiniteSet(1..WatchLevels) /\ Cardinality(1..WatchLevels) = IF 1 > WatchLevels THEN 0 ELSE WatchLevels - 1 + 1
    BY <1>1, FS_Interval
  <2>2. QED
    BY <1>1, <2>1
<1>3. rung \in Surjection(1..WatchLevels, Rung(side, ref))
  BY DEF Surjection, Rung
<1> HIDE DEF rung
<1>4. IsFiniteSet(Rung(side, ref)) /\ Cardinality(Rung(side, ref)) <= Cardinality(1..WatchLevels)
  BY <1>2, <1>3, FS_Surjection
<1>5. Rung(side, ref) \in SUBSET WatchSlots
  <2>1. \A i \in 1..WatchLevels : i \in Int /\ ref - i \in Int /\ ref + i \in Int
    BY <1>1
  <2>2. side \in 0..2
    BY DEF BuySide, SellSide
  <2>3. \A i \in 1..WatchLevels : <<side, IF side = BuySide THEN ref - i ELSE ref + i>> \in WatchSlots
    BY <2>1, <2>2 DEF WatchSlots
  <2>4. QED
    BY <2>3 DEF Rung
<1>6. QED
  BY <1>2, <1>4, <1>5, FS_CardinalityType

LEMMA WindowFacts ==
  ASSUME NEW ref \in Int
  PROVE  IsWindow(Window(ref)) /\ IsWindow(Rung(BuySide, ref)) /\ IsWindow(Rung(SellSide, ref))
<1>1. WatchLevels \in Nat
  BY WatchdogAssumption
<1> DEFINE buys == Rung(BuySide, ref)
           sells == Rung(SellSide, ref)
<1>2. /\ buys \in SUBSET WatchSlots /\ IsFiniteSet(buys) /\ Cardinality(buys) \in Nat /\ Cardinality(buys) <= WatchLevels
      /\ sells \in SUBSET WatchSlots /\ IsFiniteSet(sells) /\ Cardinality(sells) \in Nat /\ Cardinality(sells) <= WatchLevels
  BY RungFacts
<1>3. Window(ref) = buys \cup sells
  BY DEF Window
<1> HIDE DEF buys, sells
<1>4. IsFiniteSet(buys \cap sells) /\ Cardinality(buys \cap sells) \in Nat
  BY <1>2, FS_Intersection, FS_CardinalityType
<1>5. IsFiniteSet(buys \cup sells) /\ Cardinality(buys \cup sells) = Cardinality(buys) + Cardinality(sells) - Cardinality(buys \cap sells)
  BY <1>2, FS_Union
<1>6. QED
  BY <1>1, <1>2, <1>3, <1>4, <1>5 DEF IsWindow, buys, sells

LEMMA WindowSubset ==
  ASSUME NEW window, IsWindow(window), NEW slots \in SUBSET window
  PROVE  IsWindow(slots)
<1>1. WatchLevels \in Nat
  BY WatchdogAssumption
<1>2. IsFiniteSet(slots) /\ Cardinality(slots) <= Cardinality(window)
  BY FS_Subset DEF IsWindow
<1>3. Cardinality(slots) \in Nat /\ Cardinality(window) \in Nat
  BY <1>2, FS_CardinalityType DEF IsWindow
<1>4. QED
  BY <1>1, <1>2, <1>3 DEF IsWindow


-----------------------------------------------------------------------------
\* Fresh ids.

\* Every rank below its size is held by a member of a finite set of numbers.
LEMMA RankIsHeld ==
  ASSUME NEW S \in SUBSET Nat, IsFiniteSet(S), NEW n \in 0..(Cardinality(S) - 1)
  PROVE  \E x \in S : Cardinality({y \in S : y < x}) = n
<1> DEFINE Below(x) == {y \in S : y < x}
           size == Cardinality(S)
           rank == [x \in S |-> Cardinality(Below(x))]
<1>1. size \in Nat
  BY FS_CardinalityType
<1>2. \A x \in S : IsFiniteSet(Below(x)) /\ Cardinality(Below(x)) \in 0..(size - 1)
  <2> TAKE x \in S
  <2>1. Below(x) \in SUBSET S /\ Below(x) # S
    OBVIOUS
  <2>2. IsFiniteSet(Below(x)) /\ Cardinality(Below(x)) <= size /\ Cardinality(Below(x)) # size
    BY <2>1, FS_Subset
  <2>3. Cardinality(Below(x)) \in Nat
    BY <2>2, FS_CardinalityType
  <2>4. QED
    BY <1>1, <2>2, <2>3
<1>3. \A x, y \in S : x < y => Cardinality(Below(x)) # Cardinality(Below(y))
  <2> SUFFICES ASSUME NEW x \in S, NEW y \in S, x < y
               PROVE  Cardinality(Below(x)) # Cardinality(Below(y))
    OBVIOUS
  <2>4. x \in Nat /\ y \in Nat /\ \A z \in S : z \in Nat /\ (z < x => z < y)
    OBVIOUS
  <2>5. \A z \in Below(x) : z \in Below(y)
    BY <2>4
  <2>6. x \in Below(y) /\ x \notin Below(x)
    BY <2>4
  <2>1. Below(x) \in SUBSET Below(y) /\ x \in Below(y) /\ x \notin Below(x)
    BY <2>5, <2>6
  <2>2. Below(x) # Below(y)
    BY <2>1
  <2>3. QED
    BY <1>2, <2>1, <2>2, FS_Subset
<1>4. rank \in [S -> 0..(size - 1)]
  BY <1>2
<1>5. \A x, y \in S : rank[x] = rank[y] => x = y
  <2> SUFFICES ASSUME NEW x \in S, NEW y \in S, x # y PROVE rank[x] # rank[y]
    OBVIOUS
  <2>1. rank[x] = Cardinality(Below(x)) /\ rank[y] = Cardinality(Below(y))
    OBVIOUS
  <2> HIDE DEF Below, rank
  <2>2. x < y \/ y < x
    OBVIOUS
  <2>3. QED
    BY <1>3, <2>1, <2>2
<1> HIDE DEF rank
<1>6. rank \in Injection(S, 0..(size - 1))
  BY <1>4, <1>5, Zenon DEF Injection, IsInjective
<1>7. IsFiniteSet(0..(size - 1)) /\ Cardinality(0..(size - 1)) = size
  <2>1. 0 \in Int /\ size - 1 \in Int
    BY <1>1
  <2>2. IsFiniteSet(0..(size - 1)) /\ Cardinality(0..(size - 1)) = IF 0 > size - 1 THEN 0 ELSE size - 1 - 0 + 1
    BY <2>1, FS_Interval
  <2>3. QED
    BY <1>1, <2>2
<1>8. rank \in Surjection(S, 0..(size - 1))
  BY <1>6, <1>7, FS_Injection
<1>9. \E x \in S : rank[x] = n
  BY <1>8 DEF Surjection
<1>10. QED
  BY <1>9 DEF rank

LEMMA NumberedFacts ==
  ASSUME EnoughIds, NEW slots, IsWindow(slots)
  PROVE  /\ IsLadder(Numbered(slots)) /\ DOMAIN Numbered(slots) \cap InUse = {}
         /\ \A i \in DOMAIN Numbered(slots) : Numbered(slots)[i] \in slots
         /\ \A i, j \in DOMAIN Numbered(slots) : Numbered(slots)[i] = Numbered(slots)[j] => i = j
<1> DEFINE ids == WatchIds \ InUse
           Rank(k) == Cardinality({l \in slots : l[1] < k[1] \/ (l[1] = k[1] /\ l[2] < k[2])})
           IdAt(n) == CHOOSE i \in ids : Cardinality({j \in ids : j < i}) = n
           Slot(i) == CHOOSE k \in slots : IdAt(Rank(k)) = i
<1>1. Numbered(slots) = [i \in {IdAt(Rank(k)) : k \in slots} |-> Slot(i)]
  BY DEF Numbered
<1>2. WatchLevels \in Nat /\ ids \in SUBSET Nat
  BY WatchdogAssumption
<1>3. IsFiniteSet(ids) /\ Cardinality(ids) \in Nat /\ Cardinality(ids) > 2 * WatchLevels
  <2>1. IsFiniteSet(ids)
    BY WatchdogAssumption, FS_Subset
  <2>2. QED
    BY <2>1, FS_CardinalityType DEF EnoughIds
<1>4. \A k \in slots : Rank(k) \in 0..(Cardinality(ids) - 1)
  <2> SUFFICES ASSUME NEW k \in slots PROVE Rank(k) \in 0..(Cardinality(ids) - 1)
    OBVIOUS
  <2> DEFINE before == {l \in slots : l[1] < k[1] \/ (l[1] = k[1] /\ l[2] < k[2])}
  <2>1. before \in SUBSET slots /\ Rank(k) = Cardinality(before)
    OBVIOUS
  <2> HIDE DEF before, Rank, ids
  <2>2. IsFiniteSet(before) /\ Cardinality(before) <= Cardinality(slots) /\ Cardinality(slots) <= 2 * WatchLevels
    BY <2>1, FS_Subset DEF IsWindow
  <2>3. Cardinality(before) \in Nat /\ Cardinality(slots) \in Nat
    BY <2>2, FS_CardinalityType DEF IsWindow
  <2>4. QED
    BY <1>2, <1>3, <2>1, <2>2, <2>3
<1> HIDE DEF ids, Rank
<1>5. \A k \in slots : IdAt(Rank(k)) \in ids
  <2> SUFFICES ASSUME NEW k \in slots PROVE IdAt(Rank(k)) \in ids
    OBVIOUS
  <2>1. \E i \in ids : Cardinality({j \in ids : j < i}) = Rank(k)
    BY <1>2, <1>3, <1>4, RankIsHeld
  <2>2. QED
    BY <2>1
<1> HIDE DEF IdAt
<1>6. \A i \in DOMAIN Numbered(slots) : Slot(i) \in slots /\ IdAt(Rank(Slot(i))) = i
  BY <1>1
<1>7. \A i \in DOMAIN Numbered(slots) : Numbered(slots)[i] = Slot(i)
  BY <1>1
<1>8. DOMAIN Numbered(slots) \subseteq ids
  BY <1>5, <1>6
<1> HIDE DEF Slot
<1>9. IsLadder(Numbered(slots))
  <2>1. slots \subseteq WatchSlots
    BY DEF IsWindow
  <2>2. \A i \in DOMAIN Numbered(slots) : i \in WatchIds /\ Numbered(slots)[i] \in WatchSlots
    BY <1>6, <1>7, <1>8, <2>1 DEF ids
  <2>3. Numbered(slots) = [i \in DOMAIN Numbered(slots) |-> Numbered(slots)[i]]
    BY <1>1
  <2>4. QED
    BY <2>2, <2>3 DEF IsLadder
<1>10. QED
  BY <1>6, <1>7, <1>8, <1>9 DEF ids

LEMMA RegisteringFacts ==
  ASSUME NEW orders, IsLadder(orders), NEW registry
  PROVE  /\ IsLadder(Registering(orders, registry)) /\ DOMAIN Registering(orders, registry) \subseteq DOMAIN orders
         /\ \A i \in DOMAIN Registering(orders, registry) :
              /\ Registering(orders, registry)[i] = orders[i]
              /\ \A j \in DOMAIN registry : registry[j] # orders[i]
<1>1. Registrable(orders, registry) \subseteq DOMAIN orders
  BY DEF Registrable
<1>2. /\ Registering(orders, registry) = [i \in Registrable(orders, registry) |-> orders[i]]
      /\ DOMAIN Registering(orders, registry) = Registrable(orders, registry)
  BY DEF Registering
<1>3. \A i \in Registrable(orders, registry) : \A j \in DOMAIN registry : registry[j] # orders[i]
  BY DEF Registrable
<1> HIDE DEF Registrable
<1>4. QED
  BY <1>1, <1>2, <1>3 DEF IsLadder


-----------------------------------------------------------------------------
\* The invariant.

\* The entries the watchdog looks after.
Tended == EntryIds(venue) \ stuck

SlotsDistinct == \A i, j \in DOMAIN slotOf : slotOf[i] = slotOf[j] => i = j

\* A tended entry is registered with its slot, or this tick cancels it.
LookedAfter == \A i \in Tended : i \in DueCancels \/ (i \in DOMAIN slotOf /\ slotOf[i] = venue[i])

\* What a tick places is new, and registered unless a rebuild has come in between.
NewlyPlaced ==
  \A i \in DOMAIN DuePlaces :
    /\ i \notin EntryIds(venue)
    /\ IsRung(DuePlaces[i]) =>
         /\ i \in stuck \/ (i \in DOMAIN slotOf /\ slotOf[i] = DuePlaces[i])
         /\ i \notin DOMAIN venue \cup work.cancels \cup DOMAIN canceling \cup blocked.failed \cup blocked.sent
         /\ \A n \in DOMAIN unheard : unheard[n][1] # i

\* Nobody waits for a cancel, or leaves one out, of an entry that still rests, unless it failed.
CancelledStuck == \A i \in EntryIds(venue) : i \in DOMAIN canceling \cup blocked.failed \cup blocked.sent => i \in stuck

UnheardGone == \A n \in DOMAIN unheard : unheard[n][1] \notin EntryIds(venue)

\* A tended entry shows in the answer, or its placement is recent enough to be waited for.
Noticed ==
  \A i \in Tended \cap DOMAIN slotOf :
    \/ i \in DOMAIN answer.orders \/ seeding.awaiting
    \/ i \in DOMAIN placing /\ (placing[i] = 0 \/ (answer.again /\ placing[i] = 1))

\* The exits a rebuild has left to send wait for the next tick.
LeftWaits ==
  /\ DOMAIN seeding.left # {} =>
       seeding.awaiting /\ (work.busy => work.synced) /\ DOMAIN seeding.left \cap DOMAIN DuePlaces = {}
  /\ \A i \in DOMAIN seeding.left : i \notin EntryIds(venue) /\ ~IsRung(seeding.left[i])

\* A latch that can open is one of a rebuild, which leaves the registry empty.
AwaitedClean == seeding.awaiting /\ seeding.ids # {} => DOMAIN slotOf = {}

IdleSendsNothing == work.busy \/ work = NoWork

WatchInv ==
  /\ WatchTyped /\ SlotsDistinct /\ LookedAfter /\ NewlyPlaced /\ CancelledStuck /\ UnheardGone
  /\ Noticed /\ LeftWaits /\ AwaitedClean /\ IdleSendsNothing /\ OneEntryPerRung

\* Between ticks nothing is due.
LEMMA IdleFacts ==
  ASSUME WatchInv, ~work.busy
  PROVE  /\ work = NoWork /\ DueCancels = {} /\ DOMAIN DuePlaces = {}
         /\ \A i \in Tended : i \in DOMAIN slotOf /\ slotOf[i] = venue[i]
<1>1. work = NoWork
  BY DEF WatchInv, IdleSendsNothing
<1>2. work.seedCancels = {} /\ work.cancels = {} /\ work.seeds = None /\ work.places = None
  BY <1>1 DEF NoWork
<1>3. DueCancels = {} /\ DOMAIN DuePlaces = {}
  <2>1. DueCancels = {}
    BY <1>2 DEF DueCancels
  <2>2. DOMAIN DuePlaces = {}
    BY <1>2, NoneFacts DEF DuePlaces, Joined
  <2>3. QED
    BY <2>1, <2>2
<1>4. QED
  BY <1>1, <1>3 DEF WatchInv, LookedAfter

\* The watchdog forgets no entry it waits for: an acknowledged cancel was one.
LEMMA GoneIsGone ==
  ASSUME WatchInv, NEW i \in Tended
  PROVE  i \notin Gone /\ i \notin blocked.failed \cup blocked.sent
BY DEF WatchInv, CancelledStuck, Tended, Gone

\* What a repair may do.
Repairs ==
  /\ work' = NoWork \/ work'.busy
  /\ DOMAIN work' = DOMAIN NoWork /\ work'.seeds = None /\ work'.seedCancels = {}
  /\ work'.cancels \subseteq DOMAIN slotOf \cup DOMAIN answer.orders
  /\ IsLadder(work'.places) /\ DOMAIN work'.places \cap InUse = {}
  /\ \A i \in DOMAIN work'.places : i \in DOMAIN slotOf' /\ slotOf'[i] = work'.places[i]
  /\ \A i \in Tended : i \in work'.cancels \/ (i \in DOMAIN slotOf' /\ slotOf'[i] = slotOf[i])
  /\ \A i, j \in DOMAIN slotOf' : slotOf'[i] = slotOf'[j] => i = j
  /\ DOMAIN grid' = DOMAIN grid /\ grid'.ref \in Int /\ IsWindow(grid'.window)

LEMMA SentFacts ==
  ASSUME NEW cancels, NEW places, Sends(cancels, places)
  PROVE  /\ DOMAIN work' = DOMAIN NoWork /\ work'.busy /\ ~work'.synced
         /\ work'.seedCancels = {} /\ work'.seeds = None /\ work'.cancels = cancels /\ work'.places = places
BY DEF Sends, NoWork

LEMMA FreshGrid ==
  ASSUME NEW ref \in Int
  PROVE  DOMAIN Fresh(ref) = {"mode", "ref", "window", "exits"} /\ Fresh(ref).ref = ref /\ IsWindow(Fresh(ref).window)
BY WindowFacts DEF Fresh

\* Registered placements leave the slots distinct.
LEMMA StaysDistinct ==
  ASSUME NEW kept, \A i, j \in DOMAIN kept : kept[i] = kept[j] => i = j,
         NEW slots, IsWindow(slots), EnoughIds,
         NEW places, places = Registering(Numbered(slots), kept)
  PROVE  /\ IsLadder(places) /\ DOMAIN places \cap InUse = {}
         /\ \A i, j \in DOMAIN Joined(kept, places) : Joined(kept, places)[i] = Joined(kept, places)[j] => i = j
<1> DEFINE numbered == Numbered(slots)
<1>1. /\ IsLadder(numbered) /\ DOMAIN numbered \cap InUse = {}
      /\ \A i, j \in DOMAIN numbered : numbered[i] = numbered[j] => i = j
  BY NumberedFacts
<1> HIDE DEF numbered
<1>2. places = Registering(numbered, kept)
  BY DEF numbered
<1>3. /\ IsLadder(places) /\ DOMAIN places \subseteq DOMAIN numbered
      /\ \A i \in DOMAIN places : places[i] = numbered[i] /\ \A j \in DOMAIN kept : kept[j] # numbered[i]
  BY <1>1, <1>2, RegisteringFacts
<1> DEFINE joined == Joined(kept, places)
<1>4. /\ DOMAIN joined = DOMAIN kept \cup DOMAIN places
      /\ \A i \in DOMAIN places : joined[i] = places[i]
      /\ \A i \in DOMAIN kept \ DOMAIN places : joined[i] = kept[i]
  BY DEF Joined
<1> HIDE DEF joined
<1>5. \A i, j \in DOMAIN joined : joined[i] = joined[j] => i = j
  BY <1>1, <1>3, <1>4
<1>6. QED
  BY <1>1, <1>3, <1>5 DEF joined


LEMMA ForgettingKeeps ==
  ASSUME WatchInv, ~work.busy, slotOf' = Less(slotOf, Gone), UNCHANGED grid
  PROVE  /\ \A i \in Tended : i \in DOMAIN slotOf' /\ slotOf'[i] = slotOf[i]
         /\ \A i, j \in DOMAIN slotOf' : slotOf'[i] = slotOf'[j] => i = j
         /\ DOMAIN grid' = DOMAIN grid /\ grid'.ref \in Int /\ IsWindow(grid'.window)
<1>1. DOMAIN slotOf' = DOMAIN slotOf \ Gone /\ \A i \in DOMAIN slotOf' : slotOf'[i] = slotOf[i]
  BY DEF Less
<1>2. \A i \in Tended : i \in DOMAIN slotOf /\ i \notin Gone
  BY IdleFacts, GoneIsGone
<1>3. \A i, j \in DOMAIN slotOf : slotOf[i] = slotOf[j] => i = j
  BY DEF WatchInv, SlotsDistinct
<1>4. grid'.ref \in Int /\ IsWindow(grid'.window)
  BY DEF WatchInv, WatchTyped
<1>5. QED
  BY <1>1, <1>2, <1>3, <1>4

LEMMA RestingRepairs == ASSUME WatchInv, ~work.busy, Rests PROVE Repairs
<1>1. slotOf' = Less(slotOf, Gone) /\ UNCHANGED grid /\ Sends({}, None)
  BY DEF Rests, Forgets
<1>2. QED
  BY <1>1, ForgettingKeeps, SentFacts, NoneFacts DEF Repairs

LEMMA PreservingRepairs == ASSUME WatchInv, ~work.busy, RepairByPreserving PROVE Repairs
<1> DEFINE cancels == {AtSlot(k) : k \in Seen \ grid.window} \cup ExitIds(answer.orders)
<1>1. slotOf' = Less(slotOf, Gone) /\ UNCHANGED grid /\ Sends(cancels, None)
  BY DEF RepairByPreserving, Forgets
<1>2. \A k \in Seen : AtSlot(k) \in DOMAIN answer.orders
  BY DEF Seen, AtSlot, EntryIds
<1>3. cancels \subseteq DOMAIN answer.orders
  BY <1>2 DEF ExitIds
<1> HIDE DEF cancels
<1>4. QED
  BY <1>1, <1>3, ForgettingKeeps, SentFacts, NoneFacts DEF Repairs

LEMMA RecenteringRepairs == ASSUME WatchInv, ~work.busy, EnoughIds, RepairByRecentering PROVE Repairs
<1>1. PICK ref \in WatchMids :
        /\ grid' = Recentered(ref)
        /\ IF \A k \in grid.window : Registered(k) \ Gone # {}
           THEN \E old \in {{i \in DOMAIN slotOf \ Gone : slotOf[i] \in grid.window}} :
                \E kept \in {Less(slotOf, old \cup Gone)} :
                \E places \in {Registering(Numbered(Window(ref)), kept)} :
                  /\ slotOf' = Joined(kept, places)
                  /\ released' = Less(Joined(released, [i \in old |-> slotOf[i]]), Gone)
                  /\ Sends(old, places)
                  /\ UNCHANGED raised
           ELSE raised' = TRUE /\ Forgets(Gone) /\ UNCHANGED work
  BY DEF RepairByRecentering
<1>2. ref \in Int
  BY WatchdogAssumption
<1>3. DOMAIN grid = {"mode", "ref", "window", "exits"}
  BY DEF WatchInv, WatchTyped
<1>4. DOMAIN grid' = DOMAIN grid /\ grid'.ref \in Int /\ IsWindow(grid'.window)
  BY <1>1, <1>2, <1>3, FreshGrid DEF Recentered
<1>5. CASE \A k \in grid.window : Registered(k) \ Gone # {}
  <2> DEFINE old == {i \in DOMAIN slotOf \ Gone : slotOf[i] \in grid.window}
             kept == Less(slotOf, old \cup Gone)
             places == Registering(Numbered(Window(ref)), kept)
  <2>1. slotOf' = Joined(kept, places) /\ Sends(old, places)
    BY <1>1, <1>5
  <2>2. DOMAIN kept = DOMAIN slotOf \ (old \cup Gone) /\ \A i \in DOMAIN kept : kept[i] = slotOf[i]
    BY DEF Less
  <2>3. old \subseteq DOMAIN slotOf
    OBVIOUS
  <2> HIDE DEF kept, old
  <2>4. \A i, j \in DOMAIN kept : kept[i] = kept[j] => i = j
    BY <2>2 DEF WatchInv, SlotsDistinct
  <2>5. IsWindow(Window(ref))
    BY <1>2, WindowFacts
  <2>6. /\ IsLadder(places) /\ DOMAIN places \cap InUse = {}
        /\ \A i, j \in DOMAIN Joined(kept, places) : Joined(kept, places)[i] = Joined(kept, places)[j] => i = j
    BY <2>4, <2>5, StaysDistinct
  <2> HIDE DEF places
  <2>7. /\ DOMAIN slotOf' = DOMAIN kept \cup DOMAIN places
        /\ \A i \in DOMAIN places : slotOf'[i] = places[i]
        /\ \A i \in DOMAIN kept \ DOMAIN places : slotOf'[i] = kept[i]
    BY <2>1 DEF Joined
  <2>8. \A i \in Tended : i \in DOMAIN venue /\ i \in DOMAIN slotOf /\ i \notin Gone
    BY IdleFacts, GoneIsGone DEF Tended, EntryIds
  <2>9. \A i \in DOMAIN places : i \notin DOMAIN venue
    BY <2>6 DEF InUse
  <2>10. \A i \in Tended : i \in old \/ (i \in DOMAIN slotOf' /\ slotOf'[i] = slotOf[i])
    BY <2>2, <2>7, <2>8, <2>9
  <2>11. \A i, j \in DOMAIN slotOf' : slotOf'[i] = slotOf'[j] => i = j
    BY <2>1, <2>6
  <2>12. QED
    BY <1>4, <2>1, <2>3, <2>6, <2>7, <2>10, <2>11, SentFacts DEF Repairs
<1>6. CASE ~ \A k \in grid.window : Registered(k) \ Gone # {}
  <2>1. work' = NoWork /\ slotOf' = Less(slotOf, Gone)
    BY <1>1, <1>6, IdleFacts DEF Forgets
  <2>2. /\ DOMAIN work' = DOMAIN NoWork /\ work'.seeds = None /\ work'.seedCancels = {}
        /\ work'.cancels = {} /\ work'.places = None
    BY <2>1 DEF NoWork
  <2>3. DOMAIN slotOf' = DOMAIN slotOf \ Gone /\ \A i \in DOMAIN slotOf' : slotOf'[i] = slotOf[i]
    BY <2>1 DEF Less
  <2>4. \A i \in Tended : i \in DOMAIN slotOf' /\ slotOf'[i] = slotOf[i]
    BY <2>3, IdleFacts, GoneIsGone
  <2>5. \A i, j \in DOMAIN slotOf' : slotOf'[i] = slotOf'[j] => i = j
    BY <2>3 DEF WatchInv, SlotsDistinct
  <2>6. QED
    BY <1>4, <2>1, <2>2, <2>4, <2>5, NoneFacts DEF Repairs
<1>7. QED
  BY <1>5, <1>6

LEMMA BranchRepairs == ASSUME WatchInv, ~work.busy, ~seeding.awaiting, EnoughIds, RepairBranch PROVE Repairs
<1> DEFINE missing == (Wanted \ Seen) \ {slotOf[i] : i \in DOMAIN placing \cap DOMAIN slotOf}
           dropped == Gone \cup {i \in DOMAIN slotOf \ DOMAIN answer.orders : slotOf[i] \in missing}
           kept == Less(slotOf, dropped)
           places == Registering(Numbered(missing), kept)
           cancels == {AtSlot(k) : k \in Seen \ Wanted}
<1>1. slotOf' = Joined(kept, places) /\ Sends(cancels, places) /\ UNCHANGED grid
  BY DEF RepairBranch, SlotsOnTheWay
<1>2. cancels \subseteq DOMAIN answer.orders
  BY DEF Seen, AtSlot, EntryIds
<1>3. \A i \in DOMAIN placing \cap DOMAIN slotOf : slotOf[i] \notin missing
  OBVIOUS
<1>4. missing \in SUBSET grid.window
  BY DEF Wanted
<1> HIDE DEF cancels, missing
<1>5. \A i \in Tended : i \notin dropped
  <2> SUFFICES ASSUME NEW i \in Tended PROVE i \notin dropped
    OBVIOUS
  <2>1. i \in DOMAIN slotOf /\ i \notin Gone
    BY IdleFacts, GoneIsGone
  <2>2. i \in DOMAIN answer.orders \/ i \in DOMAIN placing
    BY <2>1 DEF WatchInv, Noticed
  <2>3. QED
    BY <1>3, <2>1, <2>2
<1>6. DOMAIN kept = DOMAIN slotOf \ dropped /\ \A i \in DOMAIN kept : kept[i] = slotOf[i]
  BY DEF Less
<1> HIDE DEF dropped, kept
<1>7. \A i, j \in DOMAIN kept : kept[i] = kept[j] => i = j
  BY <1>6 DEF WatchInv, SlotsDistinct
<1>8. IsWindow(grid.window)
  BY DEF WatchInv, WatchTyped
<1>9. IsWindow(missing)
  BY <1>4, <1>8, WindowSubset
<1>10. /\ IsLadder(places) /\ DOMAIN places \cap InUse = {}
       /\ \A i, j \in DOMAIN Joined(kept, places) : Joined(kept, places)[i] = Joined(kept, places)[j] => i = j
  BY <1>7, <1>9, StaysDistinct
<1> HIDE DEF places
<1>11. /\ DOMAIN slotOf' = DOMAIN kept \cup DOMAIN places
       /\ \A i \in DOMAIN places : slotOf'[i] = places[i]
       /\ \A i \in DOMAIN kept \ DOMAIN places : slotOf'[i] = kept[i]
  BY <1>1 DEF Joined
<1>12. \A i \in Tended : i \in DOMAIN venue /\ i \in DOMAIN slotOf
  BY IdleFacts DEF Tended, EntryIds
<1>13. \A i \in DOMAIN places : i \notin DOMAIN venue
  BY <1>10 DEF InUse
<1>14. \A i \in Tended : i \in DOMAIN slotOf' /\ slotOf'[i] = slotOf[i]
  BY <1>5, <1>6, <1>11, <1>12, <1>13
<1>15. \A i, j \in DOMAIN slotOf' : slotOf'[i] = slotOf'[j] => i = j
  BY <1>1, <1>10
<1>16. DOMAIN grid' = DOMAIN grid /\ grid'.ref \in Int /\ IsWindow(grid'.window)
  BY <1>1, <1>8 DEF WatchInv, WatchTyped
<1>17. QED
  BY <1>1, <1>2, <1>10, <1>11, <1>14, <1>15, <1>16, SentFacts DEF Repairs


TickFrame == UNCHANGED <<venue, holding, unheard, answer, blocked, stuck>>

LEMMA WatchRepairs ==
  ASSUME WatchInv, ~work.busy, EnoughIds, Watch
  PROVE  Repairs /\ ~seeding.awaiting /\ UNCHANGED <<placing, seeding>> /\ canceling' = StillCanceling
<1>1. ~seeding.awaiting /\ UNCHANGED <<placing, seeding>> /\ canceling' = StillCanceling
  BY DEF Watch, Acknowledge
<1>2. Rests \/ RepairByRecentering \/ RepairByPreserving \/ RepairBranch
  BY DEF Watch
<1>3. QED
  BY <1>1, <1>2, RestingRepairs, RecenteringRepairs, PreservingRepairs, BranchRepairs

LEMMA WatchKeeps ==
  ASSUME WatchInv, ~work.busy, EnoughIds, Watch, TickFrame
  PROVE  WatchInv'
<1>1. Repairs /\ ~seeding.awaiting /\ UNCHANGED <<placing, seeding>> /\ canceling' = StillCanceling
  BY WatchRepairs
<1>2. UNCHANGED <<venue, holding, unheard, answer, blocked, stuck>>
  BY DEF TickFrame
<1>3. Tended' = Tended /\ EntryIds(venue') = EntryIds(venue)
  BY <1>2 DEF Tended
<1>4. DOMAIN canceling' \subseteq DOMAIN canceling
  BY <1>1 DEF StillCanceling, Less
<1>5. /\ DOMAIN work' = DOMAIN NoWork /\ IsLadder(work'.seeds) /\ IsLadder(work'.places)
      /\ DOMAIN DuePlaces' = DOMAIN work'.places /\ \A i \in DOMAIN DuePlaces' : DuePlaces'[i] = work'.places[i]
  <2>1. /\ DOMAIN work' = DOMAIN NoWork /\ work'.seeds = None /\ IsLadder(work'.places)
    BY <1>1 DEF Repairs
  <2>2. DuePlaces' = Joined(None, work'.places)
    BY <2>1 DEF DuePlaces
  <2>3. DOMAIN None = {}
    BY NoneFacts
  <2>4. DOMAIN DuePlaces' = DOMAIN work'.places /\ \A i \in DOMAIN DuePlaces' : DuePlaces'[i] = work'.places[i]
    BY <2>2, <2>3 DEF Joined
  <2>5. QED
    BY <2>1, <2>4, NoneFacts
<1>6. WatchTyped'
  <2>1. DOMAIN grid' = DOMAIN grid /\ grid'.ref \in Int /\ IsWindow(grid'.window)
    BY <1>1 DEF Repairs
  <2>2. WatchTyped
    BY DEF WatchInv
  <2>3. QED
    BY <1>1, <1>2, <1>5, <2>1, <2>2 DEF WatchTyped
<1>7. SlotsDistinct'
  BY <1>1 DEF Repairs, SlotsDistinct
<1>8. LookedAfter'
  <2> SUFFICES ASSUME NEW i \in Tended
               PROVE  i \in DueCancels' \/ (i \in DOMAIN slotOf' /\ slotOf'[i] = venue[i])
    BY <1>2, <1>3 DEF LookedAfter
  <2>1. i \in work'.cancels \/ (i \in DOMAIN slotOf' /\ slotOf'[i] = slotOf[i])
    BY <1>1 DEF Repairs
  <2>2. slotOf[i] = venue[i] /\ i \notin blocked.failed \cup blocked.sent
    BY IdleFacts, GoneIsGone
  <2>3. i \in work'.cancels => i \in DueCancels'
    BY <1>2, <2>2 DEF DueCancels
  <2>4. QED
    BY <2>1, <2>2, <2>3
<1>9. NewlyPlaced'
  <2> SUFFICES ASSUME NEW i \in DOMAIN DuePlaces'
               PROVE  /\ i \notin EntryIds(venue)
                      /\ i \in DOMAIN slotOf' /\ slotOf'[i] = DuePlaces'[i]
                      /\ i \notin DOMAIN venue \cup work'.cancels \cup DOMAIN canceling' \cup blocked.failed \cup blocked.sent
                      /\ \A n \in DOMAIN unheard : unheard[n][1] # i
    BY <1>2 DEF NewlyPlaced
  <2>1. i \notin InUse /\ i \in DOMAIN slotOf' /\ slotOf'[i] = DuePlaces'[i]
    BY <1>1, <1>5 DEF Repairs
  <2>2. /\ i \notin DOMAIN venue /\ i \notin DOMAIN answer.orders /\ i \notin DOMAIN slotOf /\ i \notin DOMAIN canceling
        /\ i \notin blocked.failed /\ i \notin blocked.sent
    BY <2>1 DEF InUse
  <2>3. \A n \in DOMAIN unheard : unheard[n][1] # i
    BY <2>1 DEF InUse
  <2>4. i \notin work'.cancels
    BY <1>1, <2>2 DEF Repairs
  <2>5. QED
    BY <1>4, <2>1, <2>2, <2>3, <2>4 DEF EntryIds
<1>10. CancelledStuck'
  BY <1>2, <1>3, <1>4 DEF WatchInv, CancelledStuck
<1>11. UnheardGone'
  BY <1>2, <1>3 DEF WatchInv, UnheardGone
<1>12. Noticed'
  <2>1. \A i \in Tended : i \in DOMAIN slotOf
    BY IdleFacts
  <2>2. QED
    BY <1>1, <1>2, <1>3, <2>1 DEF WatchInv, Noticed
<1>13. DOMAIN seeding.left = {}
  BY <1>1 DEF WatchInv, LeftWaits
<1>14. LeftWaits' /\ AwaitedClean'
  BY <1>1, <1>13 DEF LeftWaits, AwaitedClean
<1>15. IdleSendsNothing'
  BY <1>1 DEF Repairs, IdleSendsNothing
<1>16. OneEntryPerRung'
  BY <1>2, <1>3 DEF WatchInv, OneEntryPerRung
<1>17. QED
  BY <1>6, <1>7, <1>8, <1>9, <1>10, <1>11, <1>12, <1>14, <1>15, <1>16 DEF WatchInv

LEMMA WaitsKeeps ==
  ASSUME WatchInv, ~work.busy, Waits, TickFrame
  PROVE  WatchInv'
<1>1. /\ work' = [NoWork EXCEPT !.busy = TRUE, !.seeds = seeding.left] /\ seeding' = [seeding EXCEPT !.left = None]
      /\ seeding.awaiting /\ UNCHANGED <<grid, slotOf, placing, canceling>>
  BY DEF Waits
<1>2. UNCHANGED <<venue, holding, unheard, answer, blocked, stuck>>
  BY DEF TickFrame
<1>3. Tended' = Tended /\ EntryIds(venue') = EntryIds(venue)
  BY <1>2 DEF Tended
<1>4. /\ DOMAIN work' = DOMAIN NoWork /\ work'.busy /\ work'.seeds = seeding.left /\ work'.places = None
      /\ work'.cancels = {} /\ work'.seedCancels = {}
  BY <1>1 DEF NoWork
<1>5. DOMAIN seeding = DOMAIN NoSeeds
  BY DEF WatchInv, WatchTyped
<1>6. DOMAIN seeding' = DOMAIN NoSeeds /\ seeding'.left = None /\ seeding'.awaiting /\ seeding'.ids = seeding.ids
  BY <1>1, <1>5 DEF NoSeeds
<1>7. DOMAIN DuePlaces' = DOMAIN seeding.left /\ \A i \in DOMAIN DuePlaces' : DuePlaces'[i] = seeding.left[i]
  BY <1>4, NoneFacts DEF DuePlaces, Joined
<1>8. WatchTyped'
  <2>1. WatchTyped
    BY DEF WatchInv
  <2>2. QED
    BY <1>1, <1>2, <1>4, <1>6, <2>1, NoneFacts DEF WatchTyped
<1>9. SlotsDistinct' /\ AwaitedClean'
  BY <1>1, <1>6 DEF WatchInv, SlotsDistinct, AwaitedClean
<1>10. LookedAfter'
  BY <1>1, <1>2, <1>3, IdleFacts DEF LookedAfter
<1>11. \A i \in DOMAIN seeding.left : i \notin EntryIds(venue) /\ ~IsRung(seeding.left[i])
  BY DEF WatchInv, LeftWaits
<1>12. NewlyPlaced'
  BY <1>3, <1>7, <1>11 DEF NewlyPlaced
<1>13. CancelledStuck' /\ UnheardGone'
  BY <1>1, <1>2, <1>3 DEF WatchInv, CancelledStuck, UnheardGone
<1>14. Noticed'
  BY <1>6 DEF Noticed
<1>15. LeftWaits'
  BY <1>6, NoneFacts DEF LeftWaits
<1>16. IdleSendsNothing'
  BY <1>4 DEF IdleSendsNothing
<1>17. OneEntryPerRung'
  BY <1>2, <1>3 DEF WatchInv, OneEntryPerRung
<1>18. QED
  BY <1>8, <1>9, <1>10, <1>12, <1>13, <1>14, <1>15, <1>16, <1>17 DEF WatchInv

LEMMA ResizeKeeps ==
  ASSUME WatchInv, ~work.busy, EnoughIds, Resize, TickFrame
  PROVE  WatchInv'
<1>1. PICK ref \in WatchMids : \E seeds \in {Numbered(Window(ref))} :
        /\ grid' = Fresh(ref) /\ slotOf' = seeds
        /\ seeding' = [NoSeeds EXCEPT !.awaiting = TRUE, !.ids = SeedIds(seeds)]
        /\ work' = [NoWork EXCEPT !.busy = TRUE, !.seedCancels = DOMAIN slotOf, !.seeds = seeds]
  BY DEF Resize
<1> DEFINE seeds == Numbered(Window(ref))
<1>2. /\ grid' = Fresh(ref) /\ slotOf' = seeds
      /\ seeding' = [NoSeeds EXCEPT !.awaiting = TRUE, !.ids = SeedIds(seeds)]
      /\ work' = [NoWork EXCEPT !.busy = TRUE, !.seedCancels = DOMAIN slotOf, !.seeds = seeds]
  BY <1>1
<1>3. placing' = None /\ canceling' = None /\ UNCHANGED <<venue, holding, unheard, answer, blocked, stuck>>
  BY DEF Resize, TickFrame
<1>4. ref \in Int
  BY WatchdogAssumption
<1>5. IsWindow(Window(ref))
  BY <1>4, WindowFacts
<1>6. /\ IsLadder(seeds) /\ DOMAIN seeds \cap InUse = {}
      /\ \A i, j \in DOMAIN seeds : seeds[i] = seeds[j] => i = j
  BY <1>5, NumberedFacts
<1> HIDE DEF seeds
<1>7. /\ DOMAIN work' = DOMAIN NoWork /\ work'.busy /\ work'.seeds = seeds /\ work'.places = None
      /\ work'.cancels = {} /\ work'.seedCancels = DOMAIN slotOf
  BY <1>2 DEF NoWork
<1>8. DOMAIN seeding' = DOMAIN NoSeeds /\ seeding'.awaiting /\ seeding'.left = None /\ seeding'.ids = {}
  BY <1>2 DEF NoSeeds, SeedIds
<1>9. DOMAIN DuePlaces' = DOMAIN seeds /\ \A i \in DOMAIN DuePlaces' : DuePlaces'[i] = seeds[i]
  BY <1>7, NoneFacts DEF DuePlaces, Joined
<1>10. Tended' = Tended /\ EntryIds(venue') = EntryIds(venue)
  BY <1>3 DEF Tended
<1>11. WatchTyped'
  <2>1. WatchTyped
    BY DEF WatchInv
  <2>2. DOMAIN grid' = {"mode", "ref", "window", "exits"} /\ grid'.ref \in Int /\ IsWindow(grid'.window)
    BY <1>2, <1>4, FreshGrid
  <2>3. QED
    BY <1>3, <1>6, <1>7, <1>8, <2>1, <2>2, NoneFacts DEF WatchTyped
<1>12. SlotsDistinct'
  BY <1>2, <1>6 DEF SlotsDistinct
<1>13. LookedAfter'
  <2>1. \A i \in Tended : i \in DueCancels'
    BY <1>7, IdleFacts DEF DueCancels
  <2>2. QED
    BY <1>10, <2>1 DEF LookedAfter
<1>14. NewlyPlaced'
  <2> SUFFICES ASSUME NEW i \in DOMAIN DuePlaces'
               PROVE  /\ i \notin EntryIds(venue)
                      /\ i \in DOMAIN slotOf' /\ slotOf'[i] = DuePlaces'[i]
                      /\ i \notin DOMAIN venue \cup work'.cancels \cup DOMAIN canceling' \cup blocked.failed \cup blocked.sent
                      /\ \A n \in DOMAIN unheard : unheard[n][1] # i
    BY <1>3 DEF NewlyPlaced
  <2>1. i \in DOMAIN seeds /\ i \notin InUse
    BY <1>6, <1>9
  <2>2. i \notin DOMAIN venue /\ i \notin blocked.failed /\ i \notin blocked.sent
    BY <2>1 DEF InUse
  <2>3. \A n \in DOMAIN unheard : unheard[n][1] # i
    BY <2>1 DEF InUse
  <2>4. QED
    BY <1>2, <1>3, <1>7, <1>9, <2>1, <2>2, <2>3, NoneFacts DEF EntryIds
<1>15. CancelledStuck' /\ UnheardGone'
  BY <1>3, <1>10, NoneFacts DEF WatchInv, CancelledStuck, UnheardGone
<1>16. Noticed' /\ AwaitedClean'
  BY <1>8 DEF Noticed, AwaitedClean
<1>17. LeftWaits'
  BY <1>8, NoneFacts DEF LeftWaits
<1>18. IdleSendsNothing'
  BY <1>7 DEF IdleSendsNothing
<1>19. OneEntryPerRung'
  BY <1>3, <1>10 DEF WatchInv, OneEntryPerRung
<1>20. QED
  BY <1>11, <1>12, <1>13, <1>14, <1>15, <1>16, <1>17, <1>18, <1>19 DEF WatchInv


\* What every sync leaves of the tick that is under way.
LEMMA SyncFrame ==
  ASSUME WatchInv, NEW fresh \in BOOLEAN, Sync(fresh)
  PROVE  /\ work.busy /\ ~work.synced /\ DOMAIN seeding.left = {}
         /\ UNCHANGED <<venue, holding, unheard>>
         /\ DOMAIN work' = DOMAIN NoWork /\ work'.busy /\ work'.synced
         /\ work'.seeds = work.seeds /\ work'.places = work.places /\ work'.cancels = work.cancels
         /\ DuePlaces' = DuePlaces /\ DueCancels \subseteq DueCancels'
         /\ blocked'.failed \subseteq blocked.failed /\ blocked'.sent \subseteq blocked.sent
         /\ DOMAIN answer' = {"orders", "pos", "again"} /\ answer'.pos \in Int
<1>1. /\ work.busy /\ ~work.synced /\ UNCHANGED <<venue, holding, unheard>> /\ work' = [work EXCEPT !.synced = TRUE]
      /\ blocked' = [failed |-> blocked.failed \cap DOMAIN answer'.orders, sent |-> {}]
      /\ answer' = IF fresh THEN Answer ELSE [answer EXCEPT !.again = TRUE]
  BY DEF Sync
<1>2. DOMAIN seeding.left = {}
  BY <1>1 DEF WatchInv, LeftWaits
<1>3. DOMAIN work = DOMAIN NoWork /\ DOMAIN answer = {"orders", "pos", "again"} /\ answer.pos \in Int /\ holding \in Int
  BY DEF WatchInv, WatchTyped
<1>4. /\ DOMAIN work' = DOMAIN NoWork /\ work'.synced /\ work'.busy = work.busy /\ work'.seeds = work.seeds
      /\ work'.places = work.places /\ work'.cancels = work.cancels /\ work'.seedCancels = work.seedCancels
  BY <1>1, <1>3 DEF NoWork
<1>5. DuePlaces' = DuePlaces
  BY <1>4 DEF DuePlaces
<1>6. blocked'.failed \subseteq blocked.failed /\ blocked'.sent \subseteq blocked.sent
  BY <1>1
<1>7. DueCancels \subseteq DueCancels'
  BY <1>4, <1>6 DEF DueCancels
<1>8. DOMAIN answer' = {"orders", "pos", "again"} /\ answer'.pos \in Int
  BY <1>1, <1>3 DEF Answer
<1>9. QED
  BY <1>1, <1>2, <1>4, <1>5, <1>6, <1>7, <1>8

LEMMA LatchFacts ==
  ASSUME WatchInv
  PROVE  /\ DOMAIN Latch = DOMAIN NoSeeds /\ Latch.left = seeding.left
         /\ Latch.awaiting => seeding.awaiting /\ Latch.ids = seeding.ids
         /\ seeding.awaiting => Latch.awaiting \/ seeding.ids # {}
<1>1. DOMAIN seeding = DOMAIN NoSeeds
  BY DEF WatchInv, WatchTyped
<1>2. CASE ~seeding.awaiting \/ seeding.ids = {}
  <2>1. Latch = seeding
    BY <1>2 DEF Latch
  <2>2. QED
    BY <1>1, <1>2, <2>1
<1>3. CASE seeding.awaiting /\ seeding.ids # {}
  <2>1. Latch = [NoSeeds EXCEPT !.left = seeding.left] \/ Latch = [seeding EXCEPT !.checks = @ + 1]
    BY <1>3 DEF Latch
  <2>2. CASE Latch = [NoSeeds EXCEPT !.left = seeding.left]
    BY <1>3, <2>2 DEF NoSeeds
  <2>3. CASE Latch = [seeding EXCEPT !.checks = @ + 1]
    BY <1>1, <1>3, <2>3 DEF NoSeeds
  <2>4. QED
    BY <2>1, <2>2, <2>3
<1>4. QED
  BY <1>2, <1>3

LEMMA SyncKeeps ==
  ASSUME StalePlaceGens > 1, WatchInv, NEW fresh \in BOOLEAN, Sync(fresh), ~DriftSeen
  PROVE  WatchInv'
<1>1. /\ work.busy /\ ~work.synced /\ DOMAIN seeding.left = {}
      /\ UNCHANGED <<venue, holding, unheard>>
      /\ DOMAIN work' = DOMAIN NoWork /\ work'.busy /\ work'.synced
      /\ work'.seeds = work.seeds /\ work'.places = work.places /\ work'.cancels = work.cancels
      /\ DuePlaces' = DuePlaces /\ DueCancels \subseteq DueCancels'
      /\ blocked'.failed \subseteq blocked.failed /\ blocked'.sent \subseteq blocked.sent
      /\ DOMAIN answer' = {"orders", "pos", "again"} /\ answer'.pos \in Int
  BY SyncFrame
<1>2. /\ seeding' = Latch /\ UNCHANGED <<grid, slotOf, stuck>>
      /\ placing' = [i \in {i \in DOMAIN placing \ DOMAIN answer'.orders : placing[i] + 1 < StalePlaceGens} |-> placing[i] + 1]
      /\ canceling' = Older(canceling, StaleCancelGens)
      /\ answer' = IF fresh THEN Answer ELSE [answer EXCEPT !.again = TRUE]
      /\ fresh \/ ~answer.again
  BY DEF Sync
<1>3. /\ DOMAIN seeding' = DOMAIN NoSeeds /\ seeding'.left = seeding.left
      /\ seeding'.awaiting => seeding.awaiting /\ seeding'.ids = seeding.ids
      /\ seeding.awaiting => seeding'.awaiting \/ seeding.ids # {}
  BY <1>2, LatchFacts
<1>4. DOMAIN canceling' = DOMAIN canceling
  BY <1>2 DEF Older
<1>5. Tended' = Tended /\ EntryIds(venue') = EntryIds(venue)
  BY <1>1, <1>2 DEF Tended
<1>6. WatchTyped'
  <2>1. WatchTyped
    BY DEF WatchInv
  <2>2. QED
    BY <1>1, <1>2, <1>3, <2>1 DEF WatchTyped
<1>7. SlotsDistinct'
  BY <1>2 DEF WatchInv, SlotsDistinct
<1>8. LookedAfter'
  BY <1>1, <1>2, <1>5 DEF WatchInv, LookedAfter
<1>9. NewlyPlaced'
  <2> SUFFICES ASSUME NEW i \in DOMAIN DuePlaces
               PROVE  /\ i \notin EntryIds(venue)
                      /\ IsRung(DuePlaces[i]) =>
                           /\ i \in stuck \/ (i \in DOMAIN slotOf /\ slotOf[i] = DuePlaces[i])
                           /\ i \notin DOMAIN venue \cup work.cancels \cup DOMAIN canceling \cup blocked'.failed \cup blocked'.sent
                           /\ \A n \in DOMAIN unheard : unheard[n][1] # i
    BY <1>1, <1>2, <1>4 DEF NewlyPlaced
  <2>1. QED
    BY <1>1 DEF WatchInv, NewlyPlaced
<1>10. CancelledStuck' /\ UnheardGone'
  BY <1>1, <1>2, <1>4, <1>5 DEF WatchInv, CancelledStuck, UnheardGone
<1>11. Noticed'
  <2> SUFFICES ASSUME NEW i \in Tended \cap DOMAIN slotOf, ~seeding'.awaiting
               PROVE  \/ i \in DOMAIN answer'.orders
                      \/ i \in DOMAIN placing' /\ (placing'[i] = 0 \/ (answer'.again /\ placing'[i] = 1))
    BY <1>2, <1>5 DEF Noticed
  <2>1. CASE fresh
    <3>1. answer'.orders = venue
      BY <1>2, <2>1 DEF Answer
    <3>2. QED
      BY <3>1 DEF Tended, EntryIds
  <2>2. CASE ~fresh
    <3>1. ~seeding.awaiting
      BY <1>3 DEF WatchInv, AwaitedClean
    <3>2. DOMAIN answer = {"orders", "pos", "again"}
      BY DEF WatchInv, WatchTyped
    <3>3. answer'.orders = answer.orders /\ answer'.again /\ ~answer.again
      BY <1>2, <2>2, <3>2
    <3>4. i \in DOMAIN answer.orders \/ (i \in DOMAIN placing /\ placing[i] = 0)
      BY <3>1, <3>3 DEF WatchInv, Noticed
    <3>5. CASE i \notin DOMAIN answer.orders
      <4>1. i \in DOMAIN placing /\ placing[i] + 1 = 1 /\ placing[i] + 1 < StalePlaceGens
        BY <3>4, <3>5, WatchdogAssumption
      <4>2. i \in DOMAIN placing' /\ placing'[i] = 1
        BY <1>2, <3>3, <3>5, <4>1
      <4>3. QED
        BY <3>3, <4>2
    <3>6. QED
      BY <3>3, <3>5
  <2>3. QED
    BY <2>1, <2>2
<1>12. LeftWaits'
  BY <1>1, <1>3 DEF LeftWaits
<1>13. AwaitedClean'
  BY <1>2, <1>3 DEF WatchInv, AwaitedClean
<1>14. IdleSendsNothing'
  BY <1>1 DEF IdleSendsNothing
<1>15. OneEntryPerRung'
  BY <1>1, <1>2, <1>5 DEF WatchInv, OneEntryPerRung
<1>16. QED
  BY <1>6, <1>7, <1>8, <1>9, <1>10, <1>11, <1>12, <1>13, <1>14, <1>15 DEF WatchInv

\* A rebuild forgets what is registered, and what this tick is about to place with it.
LEMMA RebuildKeeps ==
  ASSUME WatchInv, NEW fresh \in BOOLEAN, Sync(fresh), DriftSeen
  PROVE  WatchInv'
<1>1. /\ work.busy /\ ~work.synced /\ DOMAIN seeding.left = {}
      /\ UNCHANGED <<venue, holding, unheard>>
      /\ DOMAIN work' = DOMAIN NoWork /\ work'.busy /\ work'.synced
      /\ work'.seeds = work.seeds /\ work'.places = work.places /\ work'.cancels = work.cancels
      /\ DuePlaces' = DuePlaces /\ DueCancels \subseteq DueCancels'
      /\ blocked'.failed \subseteq blocked.failed /\ blocked'.sent \subseteq blocked.sent
      /\ DOMAIN answer' = {"orders", "pos", "again"} /\ answer'.pos \in Int
  BY SyncFrame
<1>2. Rebuild
  BY DEF Sync
<1>3. PICK ref \in WatchMids : \E x \in NewId(InUse \cup DOMAIN work.seeds \cup DOMAIN work.places) :
        /\ grid' = Rebuilt(answer'.pos, ref, x)
        /\ seeding' = [awaiting |-> TRUE, ids |-> {x}, checks |-> 0, left |-> [i \in {x} |-> <<0, -answer'.pos>>]]
  BY <1>2 DEF Rebuild
<1>4. PICK x \in NewId(InUse \cup DOMAIN work.seeds \cup DOMAIN work.places) :
        /\ grid' = Rebuilt(answer'.pos, ref, x)
        /\ seeding' = [awaiting |-> TRUE, ids |-> {x}, checks |-> 0, left |-> [i \in {x} |-> <<0, -answer'.pos>>]]
  BY <1>3
<1>5. slotOf' = None /\ canceling' = None /\ stuck' = stuck \cup DOMAIN slotOf
  BY <1>2 DEF Rebuild
<1>6. x \in WatchIds /\ x \notin InUse /\ x \notin DOMAIN work.seeds /\ x \notin DOMAIN work.places
  BY <1>4 DEF NewId
<1>7. x \notin EntryIds(venue) /\ x \notin DOMAIN DuePlaces
  BY <1>6 DEF InUse, EntryIds, DuePlaces, Joined
<1> DEFINE exit == <<0, -answer'.pos>>
<1>8. DOMAIN seeding' = DOMAIN NoSeeds /\ seeding'.awaiting /\ seeding'.left = [i \in {x} |-> exit]
  BY <1>4 DEF NoSeeds
<1>9. exit \in WatchSlots /\ ~IsRung(exit)
  <2>1. -answer'.pos \in Int /\ 0 \in 0..2
    BY <1>1
  <2>2. QED
    BY <2>1 DEF WatchSlots, IsRung
<1> HIDE DEF exit
<1>10. IsLadder(seeding'.left) /\ DOMAIN seeding'.left = {x} /\ seeding'.left[x] = exit
  BY <1>6, <1>8, <1>9 DEF IsLadder
<1>11. DOMAIN grid' = {"mode", "ref", "window", "exits"} /\ grid'.ref \in Int /\ IsWindow(grid'.window)
  <2>1. DOMAIN grid' = {"mode", "ref", "window", "exits"} /\ grid'.ref = ref /\ grid'.window = {}
    BY <1>4 DEF Rebuilt
  <2>2. IsWindow(grid.window)
    BY DEF WatchInv, WatchTyped
  <2>3. IsWindow({})
    BY <2>2, WindowSubset
  <2>4. QED
    BY <2>1, <2>3, WatchdogAssumption
<1>12. Tended' \subseteq Tended /\ EntryIds(venue') = EntryIds(venue) /\ \A i \in Tended' : i \in DueCancels'
  <2>1. EntryIds(venue') = EntryIds(venue)
    BY <1>1
  <2>2. Tended' = Tended \ DOMAIN slotOf
    BY <1>5, <2>1 DEF Tended
  <2>3. \A i \in Tended : i \notin DOMAIN slotOf => i \in DueCancels
    BY DEF WatchInv, LookedAfter
  <2>4. QED
    BY <1>1, <2>1, <2>2, <2>3
<1>13. WatchTyped'
  <2>1. WatchTyped
    BY DEF WatchInv
  <2>2. QED
    BY <1>1, <1>8, <1>10, <1>11, <2>1 DEF WatchTyped
<1>14. SlotsDistinct' /\ AwaitedClean' /\ Noticed' /\ IdleSendsNothing' /\ LookedAfter'
  BY <1>1, <1>5, <1>12, NoneFacts DEF SlotsDistinct, AwaitedClean, Noticed, IdleSendsNothing, LookedAfter
<1>15. NewlyPlaced'
  <2> SUFFICES ASSUME NEW i \in DOMAIN DuePlaces
               PROVE  /\ i \notin EntryIds(venue)
                      /\ IsRung(DuePlaces[i]) =>
                           /\ i \in stuck'
                           /\ i \notin DOMAIN venue \cup work.cancels \cup DOMAIN canceling' \cup blocked'.failed \cup blocked'.sent
                           /\ \A n \in DOMAIN unheard : unheard[n][1] # i
    BY <1>1 DEF NewlyPlaced
  <2>1. QED
    BY <1>1, <1>5, NoneFacts DEF WatchInv, NewlyPlaced
<1>16. CancelledStuck' /\ UnheardGone'
  BY <1>1, <1>5, <1>12, NoneFacts DEF WatchInv, CancelledStuck, UnheardGone
<1>17. LeftWaits'
  BY <1>1, <1>7, <1>8, <1>9, <1>10, <1>12 DEF LeftWaits
<1>18. OneEntryPerRung'
  BY <1>1, <1>12 DEF WatchInv, OneEntryPerRung, Tended
<1>19. QED
  BY <1>13, <1>14, <1>15, <1>16, <1>17, <1>18 DEF WatchInv


LEMMA LatchWithoutFacts ==
  ASSUME WatchInv, NEW cleaned
  PROVE  LET after == LatchWithout(cleaned)
         IN  /\ DOMAIN after = DOMAIN NoSeeds /\ IsLadder(after.left) /\ DOMAIN after.left \subseteq DOMAIN seeding.left
             /\ \A i \in DOMAIN after.left : after.left[i] = seeding.left[i]
             /\ DOMAIN after.left # {} /\ seeding.awaiting => after.awaiting
             /\ after.awaiting /\ after.ids # {} => seeding.awaiting /\ seeding.ids # {}
             /\ seeding.awaiting => after.awaiting \/ seeding.ids # {}
<1>1. DOMAIN seeding = DOMAIN NoSeeds /\ IsLadder(seeding.left)
  BY DEF WatchInv, WatchTyped
<1>2. CASE LatchWithout(cleaned) = seeding
  BY <1>1, <1>2
<1>3. CASE LatchWithout(cleaned) = NoSeeds /\ seeding.ids # {}
  <2>1. DOMAIN None = {}
    BY NoneFacts
  <2>2. NoSeeds.left = None /\ NoSeeds.ids = {}
    BY DEF NoSeeds
  <2>3. QED
    BY <1>3, <2>1, <2>2, NoneFacts
<1>4. CASE LatchWithout(cleaned) = [seeding EXCEPT !.ids = @ \ cleaned] /\ seeding.ids # {}
  <2> DEFINE after == LatchWithout(cleaned)
  <2>1. DOMAIN after = DOMAIN NoSeeds /\ after.left = seeding.left /\ after.awaiting = seeding.awaiting
    BY <1>1, <1>4 DEF NoSeeds
  <2> HIDE DEF after
  <2>2. QED
    BY <1>1, <1>4, <2>1 DEF after
<1>5. QED
  BY <1>2, <1>3, <1>4 DEF LatchWithout

LEMMA SendKeeps ==
  ASSUME WatchInv, work.busy, NEW refused, NEW lost, Dispatch(refused, lost)
  PROVE  WatchInv'
<1> DEFINE failed == (refused \cup lost) \cap DueCancels
           placed == Less(DuePlaces, refused \cup lost)
           cleaned == refused \cap DOMAIN DuePlaces
<1>1. /\ venue' = Joined(Less(venue, DueCancels \ failed), placed)
      /\ slotOf' = Less(slotOf, Unknown \cup cleaned)
      /\ placing' = Joined(placing, [i \in DOMAIN DuePlaces \ cleaned |-> 0])
      /\ canceling' = Less(Joined(canceling, [i \in work.cancels |-> IF work.synced THEN 1 ELSE 0]), Unknown)
      /\ seeding' = LatchWithout(cleaned)
      /\ blocked' = [failed |-> blocked.failed \cup (failed \cap work.cancels), sent |-> blocked.sent \cup (DueCancels \cap work.cancels)]
      /\ stuck' = stuck \cup failed /\ work' = NoWork /\ UNCHANGED <<holding, unheard, answer, grid>>
  BY DEF Dispatch, Forgets, CancelsOnTheWay
<1>2. /\ DOMAIN placed = DOMAIN DuePlaces \ (refused \cup lost) /\ \A i \in DOMAIN placed : placed[i] = DuePlaces[i]
      /\ cleaned \subseteq DOMAIN DuePlaces /\ DOMAIN placed \cap cleaned = {} /\ failed \subseteq DueCancels
  BY DEF Less
<1>3. /\ Unknown \subseteq work.cancels /\ Unknown \cap DOMAIN venue = {}
      /\ \A i \in work.cancels : i \in DueCancels \/ i \in blocked.failed \cup blocked.sent
  BY DEF Unknown, DueCancels
<1> HIDE DEF failed, placed, cleaned
<1>4. /\ DOMAIN venue' = (DOMAIN venue \ (DueCancels \ failed)) \cup DOMAIN placed
      /\ \A i \in DOMAIN placed : venue'[i] = DuePlaces[i]
      /\ \A i \in DOMAIN venue' \ DOMAIN placed : venue'[i] = venue[i]
  BY <1>1, <1>2 DEF Joined, Less
<1>5. \A i \in EntryIds(venue') :
        \/ /\ i \in EntryIds(venue) /\ i \notin DOMAIN DuePlaces /\ i \notin DueCancels \ failed
           /\ venue'[i] = venue[i]
        \/ /\ i \in DOMAIN placed /\ IsRung(DuePlaces[i]) /\ venue'[i] = DuePlaces[i]
  <2> SUFFICES ASSUME NEW i \in EntryIds(venue'), i \notin DOMAIN placed
               PROVE  /\ i \in EntryIds(venue) /\ i \notin DOMAIN DuePlaces /\ i \notin DueCancels \ failed
                      /\ venue'[i] = venue[i]
    BY <1>4 DEF EntryIds
  <2>1. i \in EntryIds(venue) /\ i \notin DueCancels \ failed /\ venue'[i] = venue[i]
    BY <1>4 DEF EntryIds
  <2>2. QED
    BY <2>1 DEF WatchInv, NewlyPlaced
<1>6. \A i \in DOMAIN placed : IsRung(DuePlaces[i]) =>
        /\ i \in stuck \/ (i \in DOMAIN slotOf /\ slotOf[i] = DuePlaces[i])
        /\ i \notin DOMAIN venue \cup work.cancels \cup DOMAIN canceling \cup blocked.failed \cup blocked.sent
        /\ \A n \in DOMAIN unheard : unheard[n][1] # i
  BY <1>2 DEF WatchInv, NewlyPlaced
<1>7. DOMAIN slotOf' = DOMAIN slotOf \ (Unknown \cup cleaned) /\ \A i \in DOMAIN slotOf' : slotOf'[i] = slotOf[i]
  BY <1>1 DEF Less
<1>8. \A i \in Tended' : i \in DOMAIN slotOf' /\ slotOf'[i] = venue'[i]
  <2> SUFFICES ASSUME NEW i \in EntryIds(venue'), i \notin stuck, i \notin failed
               PROVE  i \in DOMAIN slotOf' /\ slotOf'[i] = venue'[i]
    BY <1>1 DEF Tended
  <2>1. CASE i \in DOMAIN placed /\ IsRung(DuePlaces[i]) /\ venue'[i] = DuePlaces[i]
    BY <1>2, <1>3, <1>6, <1>7, <2>1
  <2>2. CASE i \in EntryIds(venue) /\ i \notin DOMAIN DuePlaces /\ i \notin DueCancels \ failed /\ venue'[i] = venue[i]
    <3>1. i \in Tended /\ i \notin DueCancels /\ i \in DOMAIN venue
      BY <2>2 DEF Tended, EntryIds
    <3>2. i \in DOMAIN slotOf /\ slotOf[i] = venue[i]
      BY <3>1 DEF WatchInv, LookedAfter
    <3>3. QED
      BY <1>2, <1>3, <1>7, <2>2, <3>1, <3>2
  <2>3. QED
    BY <1>5, <2>1, <2>2
<1>9. /\ DOMAIN work' = DOMAIN NoWork /\ ~work'.busy /\ work'.seeds = None /\ work'.places = None
      /\ DOMAIN DuePlaces' = {}
  <2>1. work'.seeds = None /\ work'.places = None /\ ~work'.busy /\ DOMAIN work' = DOMAIN NoWork
    BY <1>1 DEF NoWork
  <2>2. DOMAIN DuePlaces' = {}
    BY <2>1, NoneFacts DEF DuePlaces, Joined
  <2>3. QED
    BY <2>1, <2>2
<1>10. /\ DOMAIN seeding' = DOMAIN NoSeeds /\ IsLadder(seeding'.left) /\ DOMAIN seeding'.left \subseteq DOMAIN seeding.left
       /\ \A i \in DOMAIN seeding'.left : seeding'.left[i] = seeding.left[i]
       /\ DOMAIN seeding'.left # {} /\ seeding.awaiting => seeding'.awaiting
       /\ seeding'.awaiting /\ seeding'.ids # {} => seeding.awaiting /\ seeding.ids # {}
       /\ seeding.awaiting => seeding'.awaiting \/ seeding.ids # {}
  BY <1>1, LatchWithoutFacts
<1>11. WatchTyped'
  <2>1. WatchTyped
    BY DEF WatchInv
  <2>2. IsLadder(DuePlaces)
    BY <2>1, LadderJoined DEF WatchTyped, DuePlaces
  <2>3. IsLadder(placed)
    BY <2>2, LadderLess DEF placed
  <2>4. IsLadder(Less(venue, DueCancels \ failed))
    BY <2>1, LadderLess DEF WatchTyped
  <2>5. IsLadder(venue')
    BY <1>1, <2>3, <2>4, LadderJoined
  <2>6. QED
    BY <1>1, <1>9, <1>10, <2>1, <2>5, NoneFacts DEF WatchTyped
<1>12. SlotsDistinct'
  BY <1>7 DEF WatchInv, SlotsDistinct
<1>13. LookedAfter'
  BY <1>8 DEF LookedAfter
<1>14. NewlyPlaced' /\ IdleSendsNothing'
  BY <1>1, <1>9 DEF NewlyPlaced, IdleSendsNothing
<1>15. CancelledStuck'
  <2> SUFFICES ASSUME NEW i \in EntryIds(venue'), i \in DOMAIN canceling' \cup blocked'.failed \cup blocked'.sent,
                      i \notin stuck, i \notin failed
               PROVE  FALSE
    BY <1>1 DEF CancelledStuck
  <2>1. i \in DOMAIN canceling \cup work.cancels \cup blocked.failed \cup blocked.sent
    BY <1>1 DEF Less, Joined
  <2>2. CASE i \in DOMAIN placed /\ IsRung(DuePlaces[i])
    BY <1>6, <2>1, <2>2
  <2>3. CASE i \in EntryIds(venue) /\ i \notin DueCancels \ failed
    <3>1. i \notin DOMAIN canceling \cup blocked.failed \cup blocked.sent
      BY <2>3 DEF WatchInv, CancelledStuck
    <3>2. QED
      BY <1>3, <2>1, <2>3, <3>1
  <2>4. QED
    BY <1>5, <2>2, <2>3
<1>16. UnheardGone'
  BY <1>1, <1>5, <1>6 DEF WatchInv, UnheardGone
<1>17. Noticed'
  <2> SUFFICES ASSUME NEW i \in EntryIds(venue'), i \notin stuck, i \notin failed, i \in DOMAIN slotOf', ~seeding'.awaiting
               PROVE  \/ i \in DOMAIN answer.orders
                      \/ i \in DOMAIN placing' /\ (placing'[i] = 0 \/ (answer.again /\ placing'[i] = 1))
    BY <1>1 DEF Noticed, Tended
  <2>1. /\ DOMAIN placing' = DOMAIN placing \cup (DOMAIN DuePlaces \ cleaned)
        /\ \A j \in DOMAIN DuePlaces \ cleaned : placing'[j] = 0
        /\ \A j \in DOMAIN placing \ DOMAIN DuePlaces : placing'[j] = placing[j]
    BY <1>1 DEF Joined
  <2>2. CASE i \in DOMAIN placed
    BY <1>2, <2>1, <2>2
  <2>3. CASE i \in EntryIds(venue) /\ i \notin DOMAIN DuePlaces
    <3>1. i \in Tended /\ i \in DOMAIN slotOf
      BY <1>7, <2>3 DEF Tended
    <3>2. ~seeding.awaiting
      BY <1>10, <3>1 DEF WatchInv, AwaitedClean
    <3>3. i \in DOMAIN answer.orders \/ (i \in DOMAIN placing /\ (placing[i] = 0 \/ (answer.again /\ placing[i] = 1)))
      BY <3>1, <3>2 DEF WatchInv, Noticed
    <3>4. QED
      BY <2>1, <2>3, <3>3
  <2>4. QED
    BY <1>5, <2>2, <2>3
<1>18. LeftWaits'
  <2>1. DOMAIN seeding'.left # {} => seeding'.awaiting
    BY <1>10 DEF WatchInv, LeftWaits
  <2>2. \A i \in DOMAIN seeding'.left : i \notin EntryIds(venue') /\ ~IsRung(seeding'.left[i])
    <3> SUFFICES ASSUME NEW i \in DOMAIN seeding'.left PROVE i \notin EntryIds(venue') /\ ~IsRung(seeding'.left[i])
      OBVIOUS
    <3>1. i \in DOMAIN seeding.left /\ i \notin EntryIds(venue) /\ ~IsRung(seeding.left[i]) /\ i \notin DOMAIN DuePlaces
      BY <1>10 DEF WatchInv, LeftWaits
    <3>2. QED
      BY <1>2, <1>5, <1>10, <3>1
  <2>3. QED
    BY <1>9, <2>1, <2>2 DEF LeftWaits
<1>19. AwaitedClean'
  BY <1>7, <1>10 DEF WatchInv, AwaitedClean
<1>20. OneEntryPerRung'
  BY <1>8, <1>12 DEF OneEntryPerRung, Tended, SlotsDistinct
<1>21. QED
  BY <1>11, <1>12, <1>13, <1>14, <1>15, <1>16, <1>17, <1>18, <1>19, <1>20 DEF WatchInv

LEMMA FilledKeeps ==
  ASSUME WatchInv, NEW i \in WatchIds, Filled(i)
  PROVE  WatchInv'
<1>1. /\ i \in DOMAIN venue /\ venue' = Less(venue, {i}) /\ unheard' = Append(unheard, <<i, venue[i]>>)
      /\ UNCHANGED <<answer, grid, slotOf, placing, canceling, seeding, work, blocked, stuck>>
  BY DEF Filled
<1>2. DOMAIN venue' = DOMAIN venue \ {i} /\ \A j \in DOMAIN venue' : venue'[j] = venue[j]
  BY <1>1 DEF Less
<1>3. EntryIds(venue') \subseteq EntryIds(venue) /\ i \notin EntryIds(venue') /\ Tended' \subseteq Tended
  BY <1>1, <1>2 DEF EntryIds, Tended
<1>4. DuePlaces' = DuePlaces /\ DueCancels' = DueCancels
  BY <1>1 DEF DuePlaces, DueCancels
<1>5. IsLadder(venue) /\ unheard \in Seq(WatchIds \X WatchSlots) /\ holding \in Int
  BY DEF WatchInv, WatchTyped
<1>6. venue[i] \in WatchSlots
  BY <1>1, <1>5 DEF IsLadder
<1>7. holding' \in Int
  <2>1. venue[i][2] \in Int
    BY <1>6 DEF WatchSlots
  <2>2. CASE IsRung(venue[i])
    <3>1. holding' = IF venue[i][1] = BuySide THEN holding + 1 ELSE holding - 1
      BY <2>2 DEF Filled
    <3>2. QED
      BY <1>5, <3>1
  <2>3. CASE ~IsRung(venue[i])
    <3>1. holding' = IF Magnitude(venue[i][2]) >= Magnitude(holding) THEN 0 ELSE holding + venue[i][2]
      BY <2>3 DEF Filled
    <3>2. QED
      BY <1>5, <2>1, <3>1
  <2>4. QED
    BY <2>2, <2>3
<1>8. unheard' \in Seq(WatchIds \X WatchSlots)
  BY <1>1, <1>5, <1>6
<1>9. \A n \in DOMAIN unheard' : unheard'[n][1] = i \/ (n \in DOMAIN unheard /\ unheard'[n] = unheard[n])
  BY <1>1, <1>5
<1>10. WatchTyped'
  <2>1. IsLadder(venue')
    BY <1>1, <1>5, LadderLess
  <2>2. QED
    BY <1>1, <1>7, <1>8, <2>1 DEF WatchInv, WatchTyped
<1>11. SlotsDistinct' /\ AwaitedClean' /\ IdleSendsNothing'
  BY <1>1 DEF WatchInv, SlotsDistinct, AwaitedClean, IdleSendsNothing
<1>12. LookedAfter'
  <2>1. \A j \in Tended' : venue'[j] = venue[j]
    BY <1>2 DEF Tended, EntryIds
  <2>2. QED
    BY <1>1, <1>3, <1>4, <2>1 DEF WatchInv, LookedAfter
<1>13. NewlyPlaced'
  <2> SUFFICES ASSUME NEW j \in DOMAIN DuePlaces
               PROVE  /\ j \notin EntryIds(venue')
                      /\ IsRung(DuePlaces[j]) =>
                           /\ j \in stuck \/ (j \in DOMAIN slotOf /\ slotOf[j] = DuePlaces[j])
                           /\ j \notin DOMAIN venue' \cup work.cancels \cup DOMAIN canceling \cup blocked.failed \cup blocked.sent
                           /\ \A n \in DOMAIN unheard' : unheard'[n][1] # j
    BY <1>1, <1>4 DEF NewlyPlaced
  <2>1. /\ j \notin EntryIds(venue)
        /\ IsRung(DuePlaces[j]) =>
             /\ j \in stuck \/ (j \in DOMAIN slotOf /\ slotOf[j] = DuePlaces[j])
             /\ j \notin DOMAIN venue \cup work.cancels \cup DOMAIN canceling \cup blocked.failed \cup blocked.sent
             /\ \A n \in DOMAIN unheard : unheard[n][1] # j
    BY DEF WatchInv, NewlyPlaced
  <2>2. IsRung(DuePlaces[j]) => j # i
    BY <1>1, <2>1
  <2>3. QED
    BY <1>2, <1>3, <1>9, <2>1, <2>2
<1>14. CancelledStuck' /\ Noticed'
  BY <1>1, <1>3 DEF WatchInv, CancelledStuck, Noticed
<1>15. UnheardGone'
  BY <1>3, <1>9 DEF WatchInv, UnheardGone
<1>16. LeftWaits'
  BY <1>1, <1>3, <1>4 DEF WatchInv, LeftWaits
<1>17. OneEntryPerRung'
  <2>1. \A j \in EntryIds(venue') : j \in EntryIds(venue) /\ venue'[j] = venue[j]
    BY <1>2, <1>3 DEF EntryIds
  <2>2. QED
    BY <1>1, <2>1 DEF WatchInv, OneEntryPerRung
<1>18. QED
  BY <1>10, <1>11, <1>12, <1>13, <1>14, <1>15, <1>16, <1>17 DEF WatchInv

\* What hearing a fill leaves: the order that filled is forgotten, no entry is added.
LEMMA HearFrame ==
  ASSUME WatchInv, Hear
  PROVE  /\ work = NoWork /\ DOMAIN DuePlaces = {} /\ unheard # << >> /\ unheard' = Tail(unheard)
         /\ Head(unheard) \in WatchIds \X WatchSlots /\ Head(unheard)[1] \notin EntryIds(venue)
         /\ IF IsRung(Head(unheard)[2]) THEN HearsEntry(Head(unheard)[1], Head(unheard)[2]) ELSE HearsExit(Head(unheard)[1])
         /\ slotOf' = Less(slotOf, {Head(unheard)[1]}) /\ placing' = Less(placing, {Head(unheard)[1]})
         /\ canceling' = Less(canceling, {Head(unheard)[1]})
         /\ UNCHANGED <<holding, answer, seeding, work, blocked, stuck>>
<1>1. work = NoWork /\ DOMAIN DuePlaces = {}
  BY IdleFacts DEF Hear
<1>2. unheard \in Seq(WatchIds \X WatchSlots) /\ unheard # << >>
  BY DEF Hear, WatchInv, WatchTyped
<1>3. 1 \in DOMAIN unheard /\ Head(unheard) = unheard[1] /\ Head(unheard) \in WatchIds \X WatchSlots
  BY <1>2
<1>4. Head(unheard)[1] \notin EntryIds(venue)
  BY <1>3 DEF WatchInv, UnheardGone
<1>5. QED
  BY <1>1, <1>2, <1>3, <1>4 DEF Hear, Forgets

LEMMA HeardVenue ==
  ASSUME WatchInv, Hear
  PROVE  /\ IsLadder(venue') /\ DOMAIN grid' = DOMAIN grid /\ grid'.ref \in Int /\ IsWindow(grid'.window)
         /\ EntryIds(venue') \subseteq EntryIds(venue) /\ \A i \in EntryIds(venue') : venue'[i] = venue[i]
<1> DEFINE fill == Head(unheard)
<1>1. /\ fill \in WatchIds \X WatchSlots
      /\ IF IsRung(fill[2]) THEN HearsEntry(fill[1], fill[2]) ELSE HearsExit(fill[1])
  BY HearFrame
<1>2. IsLadder(venue) /\ DOMAIN grid = {"mode", "ref", "window", "exits"} /\ grid.ref \in Int /\ IsWindow(grid.window)
  BY DEF WatchInv, WatchTyped
<1> HIDE DEF fill
<1>3. CASE UNCHANGED venue /\ UNCHANGED grid
  BY <1>2, <1>3
<1>4. CASE IsRung(fill[2]) /\ ~(UNCHANGED grid /\ UNCHANGED venue)
  <2> DEFINE k == fill[2]
             exit == IF k[1] = BuySide THEN -1 ELSE 1
  <2>1. \E x \in NewId(InUse) :
          /\ grid' = [grid EXCEPT !.mode = k[1], !.window = Rung(k[1], k[2]), !.exits = Joined(@, [j \in {x} |-> exit])]
          /\ venue' = Joined(venue, [j \in {x} |-> <<0, exit>>])
    BY <1>1, <1>4 DEF HearsEntry
  <2>2. PICK x \in NewId(InUse) :
          /\ grid' = [grid EXCEPT !.mode = k[1], !.window = Rung(k[1], k[2]), !.exits = Joined(@, [j \in {x} |-> exit])]
          /\ venue' = Joined(venue, [j \in {x} |-> <<0, exit>>])
    BY <2>1
  <2>3. x \in WatchIds /\ k \in WatchSlots /\ k[1] # 0
    BY <1>1, <1>4, <2>2 DEF NewId, IsRung
  <2>4. k[1] \in {BuySide, SellSide} /\ k[2] \in Int
    BY <2>3 DEF WatchSlots, BuySide, SellSide
  <2>5. IsWindow(Rung(k[1], k[2]))
    BY <2>4, WindowFacts
  <2>6. DOMAIN grid' = DOMAIN grid /\ grid'.ref = grid.ref /\ grid'.window = Rung(k[1], k[2])
    BY <1>2, <2>2
  <2>7. <<0, exit>> \in WatchSlots /\ ~IsRung(<<0, exit>>)
    BY DEF WatchSlots, IsRung
  <2> HIDE DEF exit
  <2>8. IsLadder([j \in {x} |-> <<0, exit>>])
    BY <2>3, <2>7 DEF IsLadder
  <2>9. IsLadder(venue')
    BY <1>2, <2>2, <2>8, LadderJoined
  <2>10. EntryIds(venue') \subseteq EntryIds(venue) /\ \A i \in EntryIds(venue') : venue'[i] = venue[i]
    BY <2>2, <2>7 DEF Joined, EntryIds
  <2>11. QED
    BY <1>2, <2>5, <2>6, <2>9, <2>10
<1>5. CASE ~IsRung(fill[2]) /\ ~(UNCHANGED grid /\ UNCHANGED venue)
  <2>1. UNCHANGED venue
    BY <1>1, <1>5 DEF HearsExit
  <2>2. grid' = Fresh(grid.ref) \/ grid' = [grid EXCEPT !.exits = Less(@, {fill[1]})]
    BY <1>1, <1>5, <2>1 DEF HearsExit, Flattened
  <2>3. DOMAIN grid' = DOMAIN grid /\ grid'.ref \in Int /\ IsWindow(grid'.window)
    <3>1. CASE grid' = Fresh(grid.ref)
      BY <1>2, <3>1, FreshGrid
    <3>2. CASE grid' = [grid EXCEPT !.exits = Less(@, {fill[1]})]
      BY <1>2, <3>2
    <3>3. QED
      BY <2>2, <3>1, <3>2
  <2>4. QED
    BY <1>2, <2>1, <2>3
<1>6. QED
  BY <1>3, <1>4, <1>5

LEMMA HearKeeps ==
  ASSUME WatchInv, Hear
  PROVE  WatchInv'
<1> DEFINE told == Head(unheard)[1]
<1>1. /\ work = NoWork /\ DOMAIN DuePlaces = {} /\ unheard # << >> /\ unheard' = Tail(unheard)
      /\ told \notin EntryIds(venue)
      /\ slotOf' = Less(slotOf, {told}) /\ placing' = Less(placing, {told}) /\ canceling' = Less(canceling, {told})
      /\ UNCHANGED <<holding, answer, seeding, work, blocked, stuck>>
  BY HearFrame
<1>2. /\ IsLadder(venue') /\ DOMAIN grid' = DOMAIN grid /\ grid'.ref \in Int /\ IsWindow(grid'.window)
      /\ EntryIds(venue') \subseteq EntryIds(venue) /\ \A i \in EntryIds(venue') : venue'[i] = venue[i]
  BY HeardVenue
<1> HIDE DEF told
<1>3. /\ DOMAIN slotOf' = DOMAIN slotOf \ {told} /\ \A i \in DOMAIN slotOf' : slotOf'[i] = slotOf[i]
      /\ DOMAIN placing' = DOMAIN placing \ {told} /\ \A i \in DOMAIN placing' : placing'[i] = placing[i]
      /\ DOMAIN canceling' \subseteq DOMAIN canceling
  BY <1>1 DEF Less
<1>4. Tended' \subseteq Tended /\ told \notin Tended
  BY <1>1, <1>2 DEF Tended
<1>5. DuePlaces' = DuePlaces /\ DueCancels' = DueCancels /\ DueCancels = {}
  <2>1. DueCancels = {}
    BY IdleFacts DEF Hear
  <2>2. QED
    BY <1>1, <2>1 DEF DuePlaces, DueCancels
<1>6. unheard \in Seq(WatchIds \X WatchSlots)
  BY DEF WatchInv, WatchTyped
<1>7. unheard' \in Seq(WatchIds \X WatchSlots) /\ \A n \in DOMAIN unheard' : n + 1 \in DOMAIN unheard /\ unheard'[n] = unheard[n + 1]
  BY <1>1, <1>6
<1>8. WatchTyped'
  BY <1>1, <1>2, <1>7 DEF WatchInv, WatchTyped
<1>9. SlotsDistinct' /\ AwaitedClean' /\ IdleSendsNothing'
  BY <1>1, <1>3 DEF WatchInv, SlotsDistinct, AwaitedClean, IdleSendsNothing
<1>10. LookedAfter'
  <2> SUFFICES ASSUME NEW i \in Tended' PROVE i \in DOMAIN slotOf' /\ slotOf'[i] = venue'[i]
    BY DEF LookedAfter
  <2>1. i \in Tended /\ i # told /\ venue'[i] = venue[i]
    BY <1>2, <1>4 DEF Tended
  <2>2. i \in DOMAIN slotOf /\ slotOf[i] = venue[i]
    BY <1>5, <2>1 DEF WatchInv, LookedAfter
  <2>3. QED
    BY <1>3, <2>1, <2>2
<1>11. NewlyPlaced'
  BY <1>1, <1>5 DEF NewlyPlaced
<1>12. CancelledStuck'
  BY <1>1, <1>2, <1>3 DEF WatchInv, CancelledStuck
<1>13. UnheardGone'
  BY <1>2, <1>7 DEF WatchInv, UnheardGone
<1>14. Noticed'
  <2> SUFFICES ASSUME NEW i \in Tended', i \in DOMAIN slotOf', ~seeding.awaiting
               PROVE  i \in DOMAIN answer.orders \/ (i \in DOMAIN placing' /\ (placing'[i] = 0 \/ (answer.again /\ placing'[i] = 1)))
    BY <1>1 DEF Noticed
  <2>1. i \in Tended /\ i # told /\ i \in DOMAIN slotOf
    BY <1>3, <1>4
  <2>2. QED
    BY <1>3, <2>1 DEF WatchInv, Noticed
<1>15. LeftWaits'
  BY <1>1, <1>2, <1>5 DEF WatchInv, LeftWaits
<1>16. OneEntryPerRung'
  BY <1>1, <1>2 DEF WatchInv, OneEntryPerRung
<1>17. QED
  BY <1>8, <1>9, <1>10, <1>11, <1>12, <1>13, <1>14, <1>15, <1>16 DEF WatchInv

LEMMA StartHolds == WatchInit => WatchInv
<1> SUFFICES ASSUME WatchInit PROVE WatchInv
  OBVIOUS
<1>1. WatchLevels \in Nat /\ 1..2 * WatchLevels \subseteq WatchIds
  BY WatchdogAssumption
<1>2. /\ venue = Seeded /\ holding = 0 /\ unheard = << >> /\ answer = [orders |-> venue, pos |-> 0, again |-> FALSE]
      /\ grid = Fresh(0) /\ slotOf = venue /\ canceling = None /\ seeding = NoSeeds /\ work = NoWork
      /\ blocked = [failed |-> {}, sent |-> {}] /\ stuck = {}
  BY DEF WatchInit
<1>3. DOMAIN Seeded = 1..2 * WatchLevels
  BY DEF Seeded
<1>4. \A i \in DOMAIN Seeded : Seeded[i] = IF i <= WatchLevels THEN <<BuySide, -i>> ELSE <<SellSide, i - WatchLevels>>
  BY DEF Seeded
<1>5. \A i \in DOMAIN Seeded : Seeded[i] \in WatchSlots
  <2> SUFFICES ASSUME NEW i \in DOMAIN Seeded PROVE Seeded[i] \in WatchSlots
    OBVIOUS
  <2>1. i \in Int /\ -i \in Int /\ i - WatchLevels \in Int
    BY <1>1, <1>3
  <2>2. BuySide \in 0..2 /\ SellSide \in 0..2
    BY DEF BuySide, SellSide
  <2>3. QED
    BY <1>4, <2>1, <2>2 DEF WatchSlots
<1>6. Seeded = [i \in DOMAIN Seeded |-> Seeded[i]]
  BY DEF Seeded
<1>7. IsLadder(Seeded)
  BY <1>1, <1>3, <1>5, <1>6 DEF IsLadder
<1>8. \A i, j \in DOMAIN Seeded : Seeded[i] = Seeded[j] => i = j
  <2> SUFFICES ASSUME NEW i \in 1..2 * WatchLevels, NEW j \in 1..2 * WatchLevels, Seeded[i] = Seeded[j] PROVE i = j
    BY <1>3
  <2>1. i \in Int /\ j \in Int
    BY <1>1
  <2>2. CASE i <= WatchLevels /\ j <= WatchLevels
    <3>1. <<BuySide, -i>> = <<BuySide, -j>>
      BY <1>3, <1>4, <2>2
    <3>2. -i = -j
      BY <3>1
    <3>3. QED
      BY <2>1, <3>2
  <2>3. CASE ~(i <= WatchLevels) /\ ~(j <= WatchLevels)
    <3>1. <<SellSide, i - WatchLevels>> = <<SellSide, j - WatchLevels>>
      BY <1>3, <1>4, <2>3
    <3>2. i - WatchLevels = j - WatchLevels
      BY <3>1
    <3>3. QED
      BY <1>1, <2>1, <3>2
  <2>4. CASE (i <= WatchLevels) # (j <= WatchLevels)
    <3>1. Seeded[i][1] # Seeded[j][1]
      BY <1>3, <1>4, <2>4 DEF BuySide, SellSide
    <3>2. QED
      BY <3>1
  <2>5. QED
    BY <2>2, <2>3, <2>4
<1>9. DOMAIN None = {} /\ IsLadder(None)
  BY NoneFacts
<1>10. DueCancels = {} /\ DOMAIN DuePlaces = {} /\ ~work.busy
  <2>1. work.seeds = None /\ work.places = None /\ work.seedCancels = {} /\ work.cancels = {} /\ ~work.busy
    BY <1>2 DEF NoWork
  <2>2. QED
    BY <1>9, <2>1 DEF DueCancels, DuePlaces, Joined
<1>11. WatchTyped
  <2>1. DOMAIN grid = {"mode", "ref", "window", "exits"} /\ grid.ref = 0 /\ IsWindow(grid.window)
    BY <1>2, FreshGrid
  <2>2. unheard \in Seq(WatchIds \X WatchSlots) /\ holding \in Int
    BY <1>2
  <2>3. DOMAIN answer = {"orders", "pos", "again"} /\ answer.pos \in Int
    BY <1>2
  <2>4. DOMAIN work = DOMAIN NoWork /\ IsLadder(work.seeds) /\ IsLadder(work.places)
    BY <1>2, <1>9 DEF NoWork
  <2>5. DOMAIN seeding = DOMAIN NoSeeds /\ IsLadder(seeding.left)
    BY <1>2, <1>9 DEF NoSeeds
  <2>6. IsLadder(venue)
    BY <1>2, <1>7
  <2>7. QED
    BY <2>1, <2>2, <2>3, <2>4, <2>5, <2>6 DEF WatchTyped
<1>12. SlotsDistinct /\ OneEntryPerRung
  BY <1>2, <1>8 DEF SlotsDistinct, OneEntryPerRung, EntryIds
<1>13. LookedAfter /\ NewlyPlaced
  BY <1>2, <1>10 DEF LookedAfter, NewlyPlaced, Tended, EntryIds
<1>14. CancelledStuck
  BY <1>2, <1>9 DEF CancelledStuck
<1>15. UnheardGone
  BY <1>2 DEF UnheardGone
<1>16. Noticed
  BY <1>2 DEF Noticed
<1>17. LeftWaits /\ AwaitedClean
  BY <1>2, <1>9 DEF LeftWaits, AwaitedClean, NoSeeds
<1>18. IdleSendsNothing
  BY <1>2 DEF IdleSendsNothing
<1>19. QED
  BY <1>11, <1>12, <1>13, <1>14, <1>15, <1>16, <1>17, <1>18 DEF WatchInv

LEMMA WatchStep ==
  ASSUME StalePlaceGens > 1, WatchInv, [WatchNext]_watchVars
  PROVE  WatchInv'
<1>1. ASSUME Ticks PROVE WatchInv'
  <2>1. ~work.busy /\ EnoughIds /\ TickFrame
    BY <1>1 DEF Ticks, TickFrame
  <2>2. Resize \/ Watch \/ Waits
    BY <1>1 DEF Ticks
  <2>3. QED
    BY <2>1, <2>2, ResizeKeeps, WatchKeeps, WaitsKeeps
<1>2. ASSUME NEW fresh \in BOOLEAN, Sync(fresh) PROVE WatchInv'
  BY <1>2, SyncKeeps, RebuildKeeps
<1>3. ASSUME Send PROVE WatchInv'
  <2>1. work.busy
    BY <1>3 DEF Send
  <2>2. PICK refused : \E lost : Dispatch(refused, lost)
    BY <1>3 DEF Send
  <2>3. PICK lost : Dispatch(refused, lost)
    BY <2>2
  <2>4. QED
    BY <2>1, <2>3, SendKeeps
<1>4. ASSUME NEW i \in WatchIds, Filled(i) PROVE WatchInv'
  BY <1>4, FilledKeeps
<1>5. ASSUME UNCHANGED watchVars \/ \E i \in WatchIds : Overdue(i) PROVE WatchInv'
  <2>0. /\ UNCHANGED <<venue, holding, unheard, answer, grid, slotOf, released, placing, seeding, work,
                       blocked, deferred, mismatched, flatFor, raised, stuck>>
        /\ DOMAIN canceling' = DOMAIN canceling
    BY <1>5 DEF watchVars, Overdue
  <2>1. /\ WatchTyped' <=> WatchTyped
        /\ SlotsDistinct' <=> SlotsDistinct
        /\ AwaitedClean' <=> AwaitedClean
        /\ IdleSendsNothing' <=> IdleSendsNothing
        /\ OneEntryPerRung' <=> OneEntryPerRung
    BY <2>0 DEF WatchTyped, SlotsDistinct, AwaitedClean, IdleSendsNothing, OneEntryPerRung
  <2>2. DuePlaces' = DuePlaces /\ DueCancels' = DueCancels /\ Tended' = Tended
    BY <2>0 DEF DuePlaces, DueCancels, Tended
  <2>3. /\ LookedAfter' <=> LookedAfter
        /\ NewlyPlaced' <=> NewlyPlaced
        /\ CancelledStuck' <=> CancelledStuck
    BY <2>0, <2>2 DEF LookedAfter, NewlyPlaced, CancelledStuck
  <2>4. /\ UnheardGone' <=> UnheardGone
        /\ Noticed' <=> Noticed
        /\ LeftWaits' <=> LeftWaits
    BY <2>0, <2>2 DEF UnheardGone, Noticed, LeftWaits
  <2>5. QED
    BY <2>1, <2>3, <2>4 DEF WatchInv
<1>6. QED
  BY <1>1, <1>2, <1>3, <1>4, <1>5, HearKeeps DEF WatchNext, Synced

\* The repair never doubles a rung, however long answers, acknowledgements and fills are
\* delayed: an order it cannot see is on its way, awaited, or forgotten by a cancel that failed
\* or a rebuild.  It rests on a placement being waited for through two syncs, an old answer and
\* a fresh one (_GRID_V2_PENDING_PLACE_STALE_GENS is 4).
THEOREM RungsNeverDoubled ==
  ASSUME StalePlaceGens > 1
  PROVE  WatchSpec => []OneEntryPerRung
<1>1. WatchInv /\ [WatchNext]_watchVars => WatchInv'
  BY WatchStep
<1>2. WatchInv => OneEntryPerRung
  BY DEF WatchInv
<1>3. QED
  BY StartHolds, <1>1, <1>2, PTL DEF WatchSpec

-----------------------------------------------------------------------------
\* Proofs about the position: the machine is flat only when it is, as far as it was told.

\* A fill of an order with slot k moves the position from a to b.
FillMoves(k, a, b) ==
  IF IsRung(k) THEN b = (IF k[1] = BuySide THEN a + 1 ELSE a - 1)
  ELSE /\ Sign(k[2]) = -Sign(a) /\ a # 0
       /\ b = (IF Magnitude(k[2]) >= Magnitude(a) THEN 0 ELSE a + k[2])

\* The machine, and a position of which it was told: each exit stands for one lot at least.
Told(g, h) ==
  /\ g.mode \in {NoBranch, BuySide, SellSide} /\ IsFiniteSet(DOMAIN g.exits)
  /\ (g.mode = NoBranch <=> DOMAIN g.exits = {})
  /\ (g.mode = NoBranch => h = 0)
  /\ (g.mode = BuySide => h <= Cardinality(DOMAIN g.exits))
  /\ (g.mode = SellSide => -h <= Cardinality(DOMAIN g.exits))

\* The position went from the one told to the present one by the fills not heard yet.
Leads(h) ==
  /\ h \in [0..Len(unheard) -> Int] /\ h[Len(unheard)] = holding
  /\ \A n \in 1..Len(unheard) : FillMoves(unheard[n][2], h[n - 1], h[n])
PositionTold == \E h : Leads(h) /\ Told(grid, h[0])

\* The orders of the machine's exits close its branch.
ClosesIn(g, k) == ~IsRung(k) => (g.mode = BuySide => k[2] < 0) /\ (g.mode = SellSide => k[2] > 0)
ExitsClose ==
  \A i \in DOMAIN grid.exits :
    /\ i \in DOMAIN venue => ClosesIn(grid, venue[i])
    /\ \A n \in DOMAIN unheard : unheard[n][1] = i => ClosesIn(grid, unheard[n][2])
    /\ i \in DOMAIN DuePlaces => ClosesIn(grid, DuePlaces[i])
    /\ i \in DOMAIN seeding.left => ClosesIn(grid, seeding.left[i])

\* An exit that a rebuild has yet to send is the machine's, and was never sent before.
LeftIsExit ==
  \A i \in DOMAIN seeding.left :
    i \in DOMAIN grid.exits /\ i \notin DOMAIN venue /\ \A n \in DOMAIN unheard : unheard[n][1] # i

PositionInv == PositionTold /\ ExitsClose /\ LeftIsExit

LEMMA HeardLength == ASSUME WatchInv PROVE unheard \in Seq(WatchIds \X WatchSlots) /\ Len(unheard) \in Nat /\ DOMAIN unheard = 1..Len(unheard)
BY DEF WatchInv, WatchTyped

LEMMA PositionFrame ==
  ASSUME WatchInv, PositionInv, UNCHANGED <<holding, unheard>>, \A h \in Int : Told(grid, h) => Told(grid', h), ExitsClose', LeftIsExit'
  PROVE  PositionInv'
<1>1. PICK h : Leads(h) /\ Told(grid, h[0])
  BY DEF PositionInv, PositionTold
<1>2. Leads(h)'
  BY <1>1 DEF Leads
<1>3. h[0] \in Int
  BY <1>1, HeardLength DEF Leads
<1>4. Told(grid', h[0])
  BY <1>1, <1>3
<1>5. QED
  BY <1>2, <1>4 DEF PositionInv, PositionTold

LEMMA SameGrid ==
  ASSUME grid' = grid
  PROVE  \A h \in Int : Told(grid, h) => Told(grid', h)
BY DEF Told

\* A flat machine that starts afresh.
LEMMA FreshTold ==
  ASSUME NEW ref, grid' = Fresh(ref), grid.mode = NoBranch
  PROVE  DOMAIN grid'.exits = {} /\ \A h \in Int : Told(grid, h) => Told(grid', h)
<1>1. grid'.mode = NoBranch /\ grid'.exits = None
  BY DEF Fresh
<1>2. DOMAIN grid'.exits = {}
  BY <1>1, NoneFacts
<1>3. IsFiniteSet({})
  BY FS_EmptySet
<1>4. QED
  BY <1>1, <1>2, <1>3 DEF Told, NoBranch, BuySide, SellSide

LEMMA WatchTold ==
  ASSUME WatchInv, PositionInv, ~work.busy, EnoughIds, Watch, TickFrame
  PROVE  PositionInv'
<1>1. Repairs /\ ~seeding.awaiting /\ seeding' = seeding
  BY WatchRepairs
<1>2. UNCHANGED <<venue, holding, unheard>>
  BY DEF TickFrame
<1>3. DOMAIN seeding.left = {}
  BY <1>1 DEF WatchInv, LeftWaits
<1>4. grid' = grid \/ (grid.mode = NoBranch /\ \E ref \in WatchMids : grid' = Fresh(ref))
  BY DEF Watch, Rests, RepairByRecentering, RepairByPreserving, RepairBranch, Recentered
<1>5. DOMAIN DuePlaces' = DOMAIN work'.places
  BY <1>1, NoneFacts DEF Repairs, DuePlaces, Joined
<1>6. \A i \in DOMAIN grid.exits : i \notin DOMAIN DuePlaces'
  BY <1>1, <1>5 DEF Repairs, InUse
<1>7. LeftIsExit'
  BY <1>1, <1>3 DEF LeftIsExit
<1>8. CASE grid' = grid
  <2>1. ExitsClose'
    BY <1>1, <1>2, <1>3, <1>6, <1>8 DEF PositionInv, ExitsClose, ClosesIn
  <2>2. QED
    BY <1>2, <1>7, <1>8, <2>1, SameGrid, PositionFrame
<1>9. CASE grid.mode = NoBranch /\ \E ref \in WatchMids : grid' = Fresh(ref)
  <2>1. PICK ref : grid' = Fresh(ref)
    BY <1>9
  <2>2. DOMAIN grid'.exits = {} /\ \A h \in Int : Told(grid, h) => Told(grid', h)
    BY <1>9, <2>1, FreshTold
  <2>3. ExitsClose'
    BY <2>2 DEF ExitsClose
  <2>4. QED
    BY <1>2, <1>7, <2>2, <2>3, PositionFrame
<1>10. QED
  BY <1>4, <1>8, <1>9

LEMMA ResizeTold ==
  ASSUME WatchInv, PositionInv, ~work.busy, EnoughIds, Resize, TickFrame
  PROVE  PositionInv'
<1>1. /\ MayResize
      /\ \E ref \in WatchMids : \E seeds \in {Numbered(Window(ref))} :
           /\ grid' = Fresh(ref) /\ slotOf' = seeds /\ released' = None
           /\ seeding' = [NoSeeds EXCEPT !.awaiting = TRUE, !.ids = SeedIds(seeds)]
           /\ work' = [NoWork EXCEPT !.busy = TRUE, !.seedCancels = DOMAIN slotOf, !.seeds = seeds]
  BY Zenon DEF Resize
<1>7. PICK ref : grid' = Fresh(ref)
  BY <1>1
<1>8. seeding' = [NoSeeds EXCEPT !.awaiting = TRUE, !.ids = {}]
  BY <1>1 DEF SeedIds
<1>2. grid.mode = NoBranch
  BY <1>1 DEF MayResize, PositionInv, PositionTold, Told
<1>3. DOMAIN grid'.exits = {} /\ \A h \in Int : Told(grid, h) => Told(grid', h)
  BY <1>7, <1>2, FreshTold
<1>4. seeding'.left = None
  BY <1>8 DEF NoSeeds
<1>5. ExitsClose' /\ LeftIsExit'
  BY <1>3, <1>4, NoneFacts DEF ExitsClose, LeftIsExit
<1>6. QED
  BY <1>3, <1>5, PositionFrame DEF TickFrame

LEMMA WaitsTold ==
  ASSUME WatchInv, PositionInv, ~work.busy, Waits, TickFrame
  PROVE  PositionInv'
<1>1. /\ work' = [NoWork EXCEPT !.busy = TRUE, !.seeds = seeding.left] /\ seeding' = [seeding EXCEPT !.left = None]
      /\ UNCHANGED <<grid, venue, holding, unheard>>
  BY DEF Waits, TickFrame
<1>2. DOMAIN seeding = DOMAIN NoSeeds
  BY DEF WatchInv, WatchTyped
<1>3. seeding'.left = None
  BY <1>1, <1>2 DEF NoSeeds
<1>4. work'.seeds = seeding.left /\ work'.places = None
  BY <1>1 DEF NoWork
<1>5. DOMAIN DuePlaces' = DOMAIN seeding.left /\ \A i \in DOMAIN DuePlaces' : DuePlaces'[i] = seeding.left[i]
  BY <1>4, NoneFacts DEF DuePlaces, Joined
<1>6. LeftIsExit'
  BY <1>3, NoneFacts DEF LeftIsExit
<1>7. ExitsClose'
  BY <1>1, <1>3, <1>5, NoneFacts DEF PositionInv, ExitsClose, ClosesIn
<1>8. QED
  BY <1>1, <1>6, <1>7, SameGrid, PositionFrame

LEMMA SyncTold ==
  ASSUME WatchInv, PositionInv, NEW fresh \in BOOLEAN, Sync(fresh), ~DriftSeen
  PROVE  PositionInv'
<1>1. /\ DOMAIN seeding.left = {} /\ UNCHANGED <<venue, holding, unheard>> /\ DuePlaces' = DuePlaces
  BY SyncFrame
<1>2. seeding' = Latch /\ grid' = grid
  BY DEF Sync
<1>3. seeding'.left = seeding.left
  <2>1. DOMAIN seeding = DOMAIN NoSeeds
    BY DEF WatchInv, WatchTyped
  <2>2. QED
    BY <1>2, <2>1 DEF Latch, NoSeeds
<1>4. LeftIsExit'
  BY <1>1, <1>3 DEF LeftIsExit
<1>5. ExitsClose'
  BY <1>1, <1>2, <1>3 DEF PositionInv, ExitsClose, ClosesIn
<1>6. QED
  BY <1>1, <1>2, <1>4, <1>5, SameGrid, PositionFrame

LEMMA RebuildTold ==
  ASSUME WatchInv, PositionInv, NEW fresh \in BOOLEAN, Sync(fresh), DriftSeen
  PROVE  PositionInv'
<1>1. UNCHANGED <<venue, holding, unheard>> /\ DuePlaces' = DuePlaces /\ answer'.pos \in Int
  BY SyncFrame
<1>2. grid.mode = NoBranch /\ answer'.pos # 0
  BY DEF DriftSeen
<1>3. PICK ref \in WatchMids : \E x \in NewId(InUse \cup DOMAIN work.seeds \cup DOMAIN work.places) :
        /\ grid' = Rebuilt(answer'.pos, ref, x)
        /\ seeding' = [awaiting |-> TRUE, ids |-> {x}, checks |-> 0, left |-> [i \in {x} |-> <<0, -answer'.pos>>]]
  BY DEF Sync, Rebuild
<1>4. PICK x \in NewId(InUse \cup DOMAIN work.seeds \cup DOMAIN work.places) :
        /\ grid' = Rebuilt(answer'.pos, ref, x)
        /\ seeding' = [awaiting |-> TRUE, ids |-> {x}, checks |-> 0, left |-> [i \in {x} |-> <<0, -answer'.pos>>]]
  BY <1>3
<1>5. x \notin InUse /\ x \notin DOMAIN work.seeds /\ x \notin DOMAIN work.places
  BY <1>4 DEF NewId
<1>6. x \notin DOMAIN venue /\ x \notin DOMAIN DuePlaces /\ \A n \in DOMAIN unheard : unheard[n][1] # x
  BY <1>5 DEF InUse, DuePlaces, Joined
<1>7. /\ grid'.mode = (IF answer'.pos > 0 THEN BuySide ELSE SellSide) /\ DOMAIN grid'.exits = {x}
      /\ DOMAIN seeding'.left = {x} /\ seeding'.left[x] = <<0, -answer'.pos>>
  BY <1>4 DEF Rebuilt
<1>8. LeftIsExit'
  BY <1>1, <1>6, <1>7 DEF LeftIsExit
<1>9. ClosesIn(grid', seeding'.left[x])
  <2>1. seeding'.left[x][2] = -answer'.pos
    BY <1>7
  <2>2. CASE answer'.pos > 0
    BY <1>1, <1>7, <2>1, <2>2 DEF ClosesIn, BuySide, SellSide
  <2>3. CASE ~(answer'.pos > 0)
    BY <1>1, <1>2, <1>7, <2>1, <2>3 DEF ClosesIn, BuySide, SellSide
  <2>4. QED
    BY <2>2, <2>3
<1>10. ExitsClose'
  BY <1>1, <1>6, <1>7, <1>9 DEF ExitsClose
<1>11. \A h \in Int : Told(grid, h) => Told(grid', h)
  <2>1. IsFiniteSet({x}) /\ Cardinality({x}) = 1
    BY FS_Singleton
  <2>2. QED
    BY <1>2, <1>7, <2>1 DEF Told, NoBranch, BuySide, SellSide
<1>12. QED
  BY <1>1, <1>8, <1>10, <1>11, PositionFrame

LEMMA SendTold ==
  ASSUME WatchInv, PositionInv, NEW refused, NEW lost, Dispatch(refused, lost)
  PROVE  PositionInv'
<1> DEFINE placed == Less(DuePlaces, refused \cup lost)
           failed == (refused \cup lost) \cap DueCancels
<1>1. /\ venue' = Joined(Less(venue, DueCancels \ failed), placed) /\ work' = NoWork
      /\ seeding' = LatchWithout(refused \cap DOMAIN DuePlaces) /\ UNCHANGED <<holding, unheard, grid>>
  BY DEF Dispatch
<1>2. DOMAIN DuePlaces' = {}
  <2>1. work'.seeds = None /\ work'.places = None
    BY <1>1 DEF NoWork
  <2>2. QED
    BY <2>1, NoneFacts DEF DuePlaces, Joined
<1>3. /\ DOMAIN placed \subseteq DOMAIN DuePlaces /\ \A i \in DOMAIN placed : placed[i] = DuePlaces[i]
  BY DEF Less
<1> HIDE DEF placed
<1>4. \A i \in DOMAIN venue' : \/ i \in DOMAIN DuePlaces /\ venue'[i] = DuePlaces[i]
                               \/ i \in DOMAIN venue /\ venue'[i] = venue[i]
  BY <1>1, <1>3 DEF Less, Joined
<1>5. seeding'.left = seeding.left \/ DOMAIN seeding'.left = {}
  <2>1. DOMAIN seeding = DOMAIN NoSeeds
    BY DEF WatchInv, WatchTyped
  <2>2. QED
    BY <1>1, <2>1, NoneFacts DEF LatchWithout, NoSeeds
<1>6. \A i \in DOMAIN seeding.left : i \notin DOMAIN DuePlaces
  BY DEF WatchInv, LeftWaits
<1>7. LeftIsExit'
  BY <1>1, <1>4, <1>5, <1>6 DEF PositionInv, LeftIsExit
<1>8. ExitsClose'
  <2> SUFFICES ASSUME NEW i \in DOMAIN grid.exits
               PROVE  /\ i \in DOMAIN venue' => ClosesIn(grid', venue'[i])
                      /\ \A n \in DOMAIN unheard : unheard[n][1] = i => ClosesIn(grid', unheard[n][2])
                      /\ i \in DOMAIN seeding'.left => ClosesIn(grid', seeding'.left[i])
    BY <1>1, <1>2 DEF ExitsClose
  <2>1. /\ i \in DOMAIN venue => ClosesIn(grid, venue[i])
        /\ \A n \in DOMAIN unheard : unheard[n][1] = i => ClosesIn(grid, unheard[n][2])
        /\ i \in DOMAIN DuePlaces => ClosesIn(grid, DuePlaces[i])
        /\ i \in DOMAIN seeding.left => ClosesIn(grid, seeding.left[i])
    BY DEF PositionInv, ExitsClose
  <2>2. \A k : ClosesIn(grid, k) => ClosesIn(grid', k)
    BY <1>1 DEF ClosesIn
  <2>3. QED
    BY <1>1, <1>4, <1>5, <2>1, <2>2
<1>9. QED
  BY <1>1, <1>7, <1>8, SameGrid, PositionFrame

LEMMA FilledTold ==
  ASSUME WatchInv, PositionInv, NEW i \in WatchIds, Filled(i)
  PROVE  PositionInv'
<1>1. /\ i \in DOMAIN venue /\ venue' = Less(venue, {i}) /\ unheard' = Append(unheard, <<i, venue[i]>>)
      /\ UNCHANGED <<grid, seeding, work>>
  BY DEF Filled
<1>2. IsLadder(venue) /\ unheard \in Seq(WatchIds \X WatchSlots) /\ holding \in Int
  BY DEF WatchInv, WatchTyped
<1>3. holding' \in Int
  BY FilledKeeps DEF WatchInv, WatchTyped
<1>20. PICK moved : moved = holding'
  OBVIOUS
<1>4. FillMoves(venue[i], holding, moved)
  BY <1>20 DEF Filled, FillMoves
<1>5. PICK h : Leads(h) /\ Told(grid, h[0])
  BY DEF PositionInv, PositionTold
<1> DEFINE length == Len(unheard)
           further == [n \in 0..length + 1 |-> IF n = length + 1 THEN moved ELSE h[n]]
<1>6. length \in Nat /\ Len(unheard') = length + 1 /\ DOMAIN unheard = 1..length
  BY <1>1, <1>2
<1>7. /\ \A n \in 1..length : unheard'[n] = unheard[n]
      /\ unheard'[length + 1] = <<i, venue[i]>>
  BY <1>1, <1>2
<1>8. h \in [0..length -> Int] /\ h[length] = holding /\ \A n \in 1..length : FillMoves(unheard[n][2], h[n - 1], h[n])
  BY <1>5 DEF Leads
<1> HIDE DEF length
<1>9. further \in [0..length + 1 -> Int] /\ further[length + 1] = moved /\ further[0] = h[0] /\ h[0] \in Int
  BY <1>3, <1>6, <1>8, <1>20
<1>10. ASSUME NEW n \in 1..length + 1 PROVE FillMoves(unheard'[n][2], further[n - 1], further[n])
  <2>1. CASE n = length + 1
    <3>1. unheard'[n][2] = venue[i] /\ further[n - 1] = holding /\ further[n] = moved
      BY <1>6, <1>7, <1>8, <2>1
    <3>2. QED
      BY <1>4, <3>1
  <2>2. CASE n # length + 1
    <3>1. n \in 1..length /\ n - 1 \in 0..length
      BY <1>6, <2>2
    <3>2. unheard'[n] = unheard[n] /\ further[n - 1] = h[n - 1] /\ further[n] = h[n]
      BY <1>6, <1>7, <3>1
    <3>3. QED
      BY <1>8, <3>1, <3>2
  <2>3. QED
    BY <2>1, <2>2
<1> HIDE DEF further
<1>21. PICK f : f = further
  OBVIOUS
<1>22. f[0] = h[0]
  BY <1>9, <1>21
<1>11. Leads(f)'
  <2>1. f \in [0..Len(unheard') -> Int] /\ f[Len(unheard')] = holding'
    BY <1>6, <1>9, <1>20, <1>21
  <2>2. \A n \in 1..Len(unheard') : FillMoves(unheard'[n][2], f[n - 1], f[n])
    BY <1>6, <1>10, <1>21
  <2>3. QED
    BY <2>1, <2>2 DEF Leads
<1>12. Told(grid', f[0])
  BY <1>1, <1>5, <1>22
<1>13. DuePlaces' = DuePlaces
  BY <1>1 DEF DuePlaces
<1>14. \A n \in DOMAIN unheard' : unheard'[n] = <<i, venue[i]>> \/ (n \in DOMAIN unheard /\ unheard'[n] = unheard[n])
  BY <1>1, <1>2
<1>15. DOMAIN venue' \subseteq DOMAIN venue /\ \A j \in DOMAIN venue' : venue'[j] = venue[j]
  <2>1. venue' = Less(venue, {i})
    BY <1>1
  <2>2. DOMAIN venue' = DOMAIN venue \ {i} /\ \A j \in DOMAIN venue \ {i} : venue'[j] = venue[j]
    BY <2>1, LessFacts
  <2>3. QED
    BY <2>2
<1>16. LeftIsExit'
  <2>1. \A j \in DOMAIN seeding.left : j \in DOMAIN grid.exits /\ j \notin DOMAIN venue /\ \A n \in DOMAIN unheard : unheard[n][1] # j
    BY DEF PositionInv, LeftIsExit
  <2>2. \A j \in DOMAIN seeding.left : \A n \in DOMAIN unheard' : unheard'[n][1] # j
    BY <1>1, <1>14, <2>1
  <2>3. QED
    BY <1>1, <1>15, <2>1, <2>2 DEF LeftIsExit
<1>17. \A k : ClosesIn(grid, k) => ClosesIn(grid', k)
  BY <1>1 DEF ClosesIn
<1>18. ExitsClose'
  <2> SUFFICES ASSUME NEW j \in DOMAIN grid.exits
               PROVE  /\ j \in DOMAIN venue' => ClosesIn(grid', venue'[j])
                      /\ \A n \in DOMAIN unheard' : unheard'[n][1] = j => ClosesIn(grid', unheard'[n][2])
                      /\ j \in DOMAIN DuePlaces => ClosesIn(grid', DuePlaces[j])
                      /\ j \in DOMAIN seeding.left => ClosesIn(grid', seeding.left[j])
    BY <1>1, <1>13 DEF ExitsClose
  <2>1. /\ j \in DOMAIN venue => ClosesIn(grid, venue[j])
        /\ \A n \in DOMAIN unheard : unheard[n][1] = j => ClosesIn(grid, unheard[n][2])
        /\ j \in DOMAIN DuePlaces => ClosesIn(grid, DuePlaces[j])
        /\ j \in DOMAIN seeding.left => ClosesIn(grid, seeding.left[j])
    BY DEF PositionInv, ExitsClose
  <2>2. \A n \in DOMAIN unheard' : unheard'[n][1] = j => ClosesIn(grid, unheard'[n][2])
    BY <1>1, <1>14, <2>1
  <2>3. QED
    BY <1>15, <1>17, <2>1, <2>2
<1>19. PositionTold'
  BY <1>11, <1>12 DEF PositionTold
<1>23. QED
  BY <1>16, <1>18, <1>19 DEF PositionInv

\* What the machine makes of the next fill.
LEMMA EntryTold ==
  ASSUME WatchInv, PositionInv, NEW i, NEW k \in WatchSlots, IsRung(k), HearsEntry(i, k),
         NEW a \in Int, NEW b \in Int, Told(grid, a), FillMoves(k, a, b)
  PROVE  Told(grid', b)
<1>1. k[1] \in {BuySide, SellSide} /\ b = (IF k[1] = BuySide THEN a + 1 ELSE a - 1)
  BY DEF WatchSlots, IsRung, BuySide, SellSide, FillMoves
<1>5. IF grid.mode \in {NoBranch, k[1]}
      THEN \E x \in NewId(InUse) :
             \E exit \in {IF k[1] = BuySide THEN -1 ELSE 1} :
               /\ grid' = [grid EXCEPT !.mode = k[1], !.window = Rung(k[1], k[2]), !.exits = Joined(@, [j \in {x} |-> exit])]
               /\ venue' = Joined(venue, [j \in {x} |-> <<0, exit>>])
      ELSE UNCHANGED <<grid, venue>>
  BY Zenon DEF HearsEntry, Known
<1>2. CASE ~(grid.mode \in {NoBranch, k[1]})
  <2>1. grid' = grid /\ grid.mode # NoBranch /\ grid.mode # k[1]
    BY <1>2, <1>5
  <2>2. Cardinality(DOMAIN grid.exits) \in Nat
    BY FS_CardinalityType DEF Told
  <2>3. CASE k[1] = BuySide
    BY <1>1, <2>1, <2>2, <2>3 DEF Told, NoBranch, BuySide, SellSide
  <2>4. CASE k[1] = SellSide
    BY <1>1, <2>1, <2>2, <2>4 DEF Told, NoBranch, BuySide, SellSide
  <2>5. QED
    BY <1>1, <2>3, <2>4
<1>3. CASE grid.mode \in {NoBranch, k[1]}
  <2>10. PICK x \in NewId(InUse) :
           \E exit \in {IF k[1] = BuySide THEN -1 ELSE 1} :
             /\ grid' = [grid EXCEPT !.mode = k[1], !.window = Rung(k[1], k[2]), !.exits = Joined(@, [j \in {x} |-> exit])]
             /\ venue' = Joined(venue, [j \in {x} |-> <<0, exit>>])
    BY Zenon, <1>3, <1>5
  <2>1. PICK exit :
          grid' = [grid EXCEPT !.mode = k[1], !.window = Rung(k[1], k[2]), !.exits = Joined(@, [j \in {x} |-> exit])]
    BY <2>10
  <2>2. DOMAIN grid = {"mode", "ref", "window", "exits"}
    BY DEF WatchInv, WatchTyped
  <2>3. grid'.mode = k[1] /\ DOMAIN grid'.exits = DOMAIN grid.exits \cup {x}
    BY <2>1, <2>2 DEF Joined
  <2>4. x \notin DOMAIN grid.exits
    BY DEF NewId, InUse
  <2>5. IsFiniteSet(DOMAIN grid.exits)
    BY DEF Told
  <2>6. /\ IsFiniteSet(DOMAIN grid'.exits) /\ Cardinality(DOMAIN grid'.exits) = Cardinality(DOMAIN grid.exits) + 1
        /\ Cardinality(DOMAIN grid.exits) \in Nat
    BY <2>3, <2>4, <2>5, FS_AddElement, FS_CardinalityType
  <2>7. CASE k[1] = BuySide
    <3>1. a <= Cardinality(DOMAIN grid.exits)
      BY <1>3, <2>6, <2>7 DEF Told, NoBranch, BuySide
    <3>2. QED
      BY <1>1, <2>3, <2>6, <2>7, <3>1 DEF Told, NoBranch, BuySide, SellSide
  <2>8. CASE k[1] = SellSide
    <3>1. -a <= Cardinality(DOMAIN grid.exits)
      BY <1>3, <2>6, <2>8 DEF Told, NoBranch, SellSide
    <3>2. QED
      BY <1>1, <2>3, <2>6, <2>8, <3>1 DEF Told, NoBranch, BuySide, SellSide
  <2>9. QED
    BY <1>1, <2>7, <2>8
<1>4. QED
  BY <1>2, <1>3

\* An exit takes a lot at least off a position of its branch.
LEMMA ExitMoves ==
  ASSUME NEW k \in WatchSlots, ~IsRung(k), NEW a \in Int, NEW b \in Int, FillMoves(k, a, b)
  PROVE  /\ a # 0 /\ (a > 0 => k[2] < 0 /\ b <= a - 1 /\ b >= 0) /\ (a < 0 => k[2] > 0 /\ b >= a + 1 /\ b <= 0)
<1>1. Sign(k[2]) = -Sign(a) /\ a # 0 /\ b = (IF Magnitude(k[2]) >= Magnitude(a) THEN 0 ELSE a + k[2])
  BY DEF FillMoves
<1>2. k[2] \in Int
  BY DEF WatchSlots
<1>3. CASE a > 0
  <2>1. k[2] < 0
    BY <1>1, <1>2, <1>3 DEF Sign
  <2>2. Magnitude(k[2]) = -k[2] /\ Magnitude(a) = a
    BY <1>2, <1>3, <2>1 DEF Magnitude
  <2>3. QED
    BY <1>1, <1>2, <1>3, <2>1, <2>2
<1>4. CASE a < 0
  <2>1. k[2] > 0
    BY <1>1, <1>2, <1>4 DEF Sign
  <2>2. Magnitude(k[2]) = k[2] /\ Magnitude(a) = -a
    BY <1>2, <1>4, <2>1 DEF Magnitude
  <2>3. QED
    BY <1>1, <1>2, <1>4, <2>1, <2>2
<1>5. QED
  BY <1>1, <1>3, <1>4

LEMMA ExitTold ==
  ASSUME WatchInv, NEW i, NEW k \in WatchSlots, ~IsRung(k), HearsExit(i), i \in DOMAIN grid.exits => ClosesIn(grid, k),
         NEW a \in Int, NEW b \in Int, Told(grid, a), FillMoves(k, a, b)
  PROVE  Told(grid', b)
<1>1. /\ a # 0 /\ (a > 0 => k[2] < 0 /\ b <= a - 1 /\ b >= 0) /\ (a < 0 => k[2] > 0 /\ b >= a + 1 /\ b <= 0)
  BY ExitMoves
<1>2. k[2] \in Int /\ grid.mode \in {BuySide, SellSide}
  BY <1>1 DEF WatchSlots, Told, NoBranch
<1> DEFINE n == Cardinality(DOMAIN grid.exits)
<1>3. IsFiniteSet(DOMAIN grid.exits) /\ n \in Nat
  BY FS_CardinalityType DEF Told
<1>4. CASE i \notin DOMAIN grid.exits
  <2>1. grid' = grid
    BY <1>4 DEF HearsExit
  <2>2. (grid.mode = BuySide => b <= n) /\ (grid.mode = SellSide => -b <= n)
    BY <1>1, <1>3 DEF Told
  <2>3. QED
    BY <1>2, <2>1, <2>2 DEF Told, NoBranch, BuySide, SellSide
<1>5. CASE i \in DOMAIN grid.exits
  <2>1. /\ grid.mode = BuySide => k[2] < 0
        /\ grid.mode = SellSide => k[2] > 0
    BY <1>5 DEF ClosesIn
  <2>2. /\ grid.mode = BuySide => a > 0 /\ b <= n - 1 /\ b >= 0
        /\ grid.mode = SellSide => a < 0 /\ -b <= n - 1 /\ b <= 0
    BY <1>1, <1>2, <1>3, <2>1 DEF Told
  <2>3. CASE DOMAIN grid.exits = {i}
    <3>1. n = 1
      BY <2>3, FS_Singleton
    <3>2. b = 0
      BY <1>2, <2>2, <3>1
    <3>3. grid' = Fresh(grid.ref)
      BY <1>5, <2>3 DEF HearsExit, Flattened
    <3>4. grid'.mode = NoBranch /\ DOMAIN grid'.exits = {}
      BY <3>3, NoneFacts DEF Fresh
    <3>5. IsFiniteSet({})
      BY FS_EmptySet
    <3>6. QED
      BY <3>2, <3>4, <3>5 DEF Told, NoBranch, BuySide, SellSide
  <2>4. CASE DOMAIN grid.exits # {i}
    <3>1. grid' = [grid EXCEPT !.exits = Less(@, {i})]
      BY <1>5, <2>4 DEF HearsExit
    <3>2. DOMAIN grid = {"mode", "ref", "window", "exits"}
      BY DEF WatchInv, WatchTyped
    <3>7. grid'.mode = grid.mode /\ grid'.exits = Less(grid.exits, {i})
      BY <3>1, <3>2
    <3>3. grid'.mode = grid.mode /\ DOMAIN grid'.exits = DOMAIN grid.exits \ {i}
      BY <3>7, LessFacts
    <3>8. PICK owned : owned = DOMAIN grid.exits
      OBVIOUS
    <3>9. IsFiniteSet(owned \ {i}) /\ Cardinality(owned \ {i}) = Cardinality(owned) - 1
      BY <1>3, <1>5, <3>8, FS_RemoveElement
    <3>4. IsFiniteSet(DOMAIN grid'.exits) /\ Cardinality(DOMAIN grid'.exits) = n - 1
      BY <3>3, <3>8, <3>9
    <3>5. DOMAIN grid'.exits # {}
      BY <1>5, <2>4, <3>3
    <3>6. QED
      BY <1>2, <2>2, <3>3, <3>4, <3>5 DEF Told, NoBranch, BuySide, SellSide
  <2>5. QED
    BY <2>3, <2>4
<1>6. QED
  BY <1>4, <1>5

\* The orders of exits close their branch after a fill was heard.
LEMMA HeardClose ==
  ASSUME WatchInv, PositionInv, Hear
  PROVE  ExitsClose' /\ LeftIsExit'
<1> DEFINE fill == Head(unheard)
<1>1. /\ work = NoWork /\ DOMAIN DuePlaces = {} /\ unheard # << >> /\ unheard' = Tail(unheard)
      /\ fill \in WatchIds \X WatchSlots
      /\ IF IsRung(fill[2]) THEN HearsEntry(fill[1], fill[2]) ELSE HearsExit(fill[1])
      /\ UNCHANGED <<seeding, work>>
  BY HearFrame
<1>2. unheard \in Seq(WatchIds \X WatchSlots)
  BY HeardLength
<1>3. \A n \in DOMAIN unheard' : n + 1 \in DOMAIN unheard /\ unheard'[n] = unheard[n + 1]
  BY <1>1, <1>2
<1>4. 1 \in DOMAIN unheard /\ fill = unheard[1]
  BY <1>1, <1>2
<1> HIDE DEF fill
<1>5. DOMAIN DuePlaces' = {}
  BY <1>1 DEF DuePlaces
<1>6. DOMAIN grid = {"mode", "ref", "window", "exits"}
  BY DEF WatchInv, WatchTyped
<1>7. CASE UNCHANGED <<grid, venue>>
  <2>1. LeftIsExit'
    BY <1>1, <1>3, <1>7 DEF PositionInv, LeftIsExit
  <2>2. ExitsClose'
    BY <1>1, <1>3, <1>5, <1>7 DEF PositionInv, ExitsClose, ClosesIn
  <2>3. QED
    BY <2>1, <2>2
<1>8. CASE IsRung(fill[2]) /\ ~UNCHANGED <<grid, venue>>
  <2> DEFINE k == fill[2]
             exit == IF k[1] = BuySide THEN -1 ELSE 1
  <2>14. IF grid.mode \in {NoBranch, k[1]}
         THEN \E x \in NewId(InUse) :
                \E out \in {IF k[1] = BuySide THEN -1 ELSE 1} :
                  /\ grid' = [grid EXCEPT !.mode = k[1], !.window = Rung(k[1], k[2]), !.exits = Joined(@, [j \in {x} |-> out])]
                  /\ venue' = Joined(venue, [j \in {x} |-> <<0, out>>])
         ELSE UNCHANGED <<grid, venue>>
    <3>1. HearsEntry(fill[1], k)
      BY <1>1, <1>8
    <3> HIDE DEF fill, k
    <3>2. QED
      BY Zenon, <3>1 DEF HearsEntry, Known
  <2>1. grid.mode \in {NoBranch, k[1]}
    <3>1. ~UNCHANGED <<grid, venue>>
      BY <1>8
    <3> HIDE DEF fill, k
    <3>2. QED
      BY Zenon, <3>1, <2>14
  <2>15. PICK x \in NewId(InUse) :
           \E out \in {IF k[1] = BuySide THEN -1 ELSE 1} :
             /\ grid' = [grid EXCEPT !.mode = k[1], !.window = Rung(k[1], k[2]), !.exits = Joined(@, [j \in {x} |-> out])]
             /\ venue' = Joined(venue, [j \in {x} |-> <<0, out>>])
    <3> HIDE DEF fill, k
    <3>1. QED
      BY Zenon, <2>1, <2>14
  <2>2. /\ grid' = [grid EXCEPT !.mode = k[1], !.window = Rung(k[1], k[2]), !.exits = Joined(@, [j \in {x} |-> exit])]
        /\ venue' = Joined(venue, [j \in {x} |-> <<0, exit>>])
    <3>1. PICK out : /\ out = exit
                     /\ grid' = [grid EXCEPT !.mode = k[1], !.window = Rung(k[1], k[2]), !.exits = Joined(@, [j \in {x} |-> out])]
                     /\ venue' = Joined(venue, [j \in {x} |-> <<0, out>>])
      BY <2>15
    <3> HIDE DEF fill, k, exit
    <3>2. QED
      BY <3>1
  <2>3. x \notin InUse
    BY <2>2 DEF NewId
  <2>4. x \notin DOMAIN venue /\ x \notin DOMAIN grid.exits /\ \A n \in DOMAIN unheard : unheard[n][1] # x
    BY <2>3 DEF InUse
  <2>5. grid'.mode = k[1] /\ DOMAIN grid'.exits = DOMAIN grid.exits \cup {x}
    BY <1>6, <2>2 DEF Joined
  <2>6. k[1] \in {BuySide, SellSide}
    BY <1>1, <1>8 DEF WatchSlots, IsRung, BuySide, SellSide
  <2>7. ClosesIn(grid', <<0, exit>>)
    BY <2>5, <2>6 DEF ClosesIn, BuySide, SellSide
  <2> HIDE DEF exit, k
  <2>8. /\ DOMAIN venue' = DOMAIN venue \cup {x} /\ venue'[x] = <<0, exit>>
        /\ \A j \in DOMAIN venue : venue'[j] = venue[j]
    BY <2>2, <2>4 DEF Joined
  <2>9. x \notin DOMAIN seeding.left
    BY <2>4 DEF PositionInv, LeftIsExit
  <2>10. LeftIsExit'
    BY <1>1, <1>3, <2>4, <2>5, <2>8, <2>9 DEF PositionInv, LeftIsExit
  <2>11. \A j \in DOMAIN grid.exits : grid.mode = k[1]
    BY <2>1 DEF PositionInv, PositionTold, Told
  <2>12. ExitsClose'
    <3> SUFFICES ASSUME NEW j \in DOMAIN grid'.exits
                 PROVE  /\ j \in DOMAIN venue' => ClosesIn(grid', venue'[j])
                        /\ \A n \in DOMAIN unheard' : unheard'[n][1] = j => ClosesIn(grid', unheard'[n][2])
                        /\ j \in DOMAIN seeding.left => ClosesIn(grid', seeding.left[j])
      BY <1>1, <1>5 DEF ExitsClose
    <3>1. CASE j = x
      BY <1>3, <2>4, <2>7, <2>8, <2>9, <3>1
    <3>2. CASE j # x
      <4>1. j \in DOMAIN grid.exits /\ grid'.mode = grid.mode
        BY <2>5, <2>11, <3>2
      <4>2. \A l : ClosesIn(grid, l) => ClosesIn(grid', l)
        BY <4>1 DEF ClosesIn
      <4>3. /\ j \in DOMAIN venue => ClosesIn(grid, venue[j])
            /\ \A n \in DOMAIN unheard : unheard[n][1] = j => ClosesIn(grid, unheard[n][2])
            /\ j \in DOMAIN seeding.left => ClosesIn(grid, seeding.left[j])
        BY <4>1 DEF PositionInv, ExitsClose
      <4>4. QED
        BY <1>3, <2>8, <3>2, <4>2, <4>3
    <3>3. QED
      BY <3>1, <3>2
  <2>13. QED
    BY <2>10, <2>12
<1>9. CASE ~IsRung(fill[2]) /\ ~UNCHANGED <<grid, venue>>
  <2>1. UNCHANGED venue /\ fill[1] \in DOMAIN grid.exits
    BY <1>1, <1>9 DEF HearsExit
  <2>2. fill[1] \notin DOMAIN seeding.left
    BY <1>4 DEF PositionInv, LeftIsExit
  <2>3. CASE DOMAIN grid.exits = {fill[1]}
    <3>1. grid' = Fresh(grid.ref)
      BY <1>1, <1>9, <2>1, <2>3 DEF HearsExit, Flattened
    <3>2. DOMAIN grid'.exits = {}
      BY <3>1, NoneFacts DEF Fresh
    <3>3. DOMAIN seeding.left = {}
      BY <2>2, <2>3 DEF PositionInv, LeftIsExit
    <3>4. QED
      BY <1>1, <3>2, <3>3 DEF ExitsClose, LeftIsExit
  <2>4. CASE DOMAIN grid.exits # {fill[1]}
    <3>1. grid' = [grid EXCEPT !.exits = Less(@, {fill[1]})]
      BY <1>1, <1>9, <2>1, <2>4 DEF HearsExit
    <3>6. grid'.mode = grid.mode /\ grid'.exits = Less(grid.exits, {fill[1]})
      BY <1>6, <3>1
    <3>2. grid'.mode = grid.mode /\ DOMAIN grid'.exits = DOMAIN grid.exits \ {fill[1]}
      BY <3>6, LessFacts
    <3>3. LeftIsExit'
      BY <1>1, <1>3, <2>1, <2>2, <3>2 DEF PositionInv, LeftIsExit
    <3>4. ExitsClose'
      BY <1>1, <1>3, <1>5, <2>1, <3>2 DEF PositionInv, ExitsClose, ClosesIn
    <3>5. QED
      BY <3>3, <3>4
  <2>5. QED
    BY <2>3, <2>4
<1>10. QED
  BY <1>7, <1>8, <1>9

LEMMA HearTold ==
  ASSUME WatchInv, PositionInv, Hear
  PROVE  PositionInv'
<1> DEFINE fill == Head(unheard)
           length == Len(unheard)
<1>1. /\ unheard # << >> /\ unheard' = Tail(unheard) /\ fill \in WatchIds \X WatchSlots
      /\ IF IsRung(fill[2]) THEN HearsEntry(fill[1], fill[2]) ELSE HearsExit(fill[1])
      /\ UNCHANGED holding
  BY HearFrame
<1>2. unheard \in Seq(WatchIds \X WatchSlots)
  BY HeardLength
<1>3. length \in Nat /\ length >= 1 /\ Len(unheard') = length - 1 /\ fill = unheard[1]
  BY <1>1, <1>2
<1>4. \A n \in 1..length - 1 : unheard'[n] = unheard[n + 1]
  BY <1>1, <1>2
<1>5. 1 \in DOMAIN unheard
  BY <1>1, <1>2
<1>6. PICK h : Leads(h) /\ Told(grid, h[0])
  BY DEF PositionInv, PositionTold
<1>7. h \in [0..length -> Int] /\ h[length] = holding /\ \A n \in 1..length : FillMoves(unheard[n][2], h[n - 1], h[n])
  BY <1>6 DEF Leads
<1> DEFINE later == [n \in 0..length - 1 |-> h[n + 1]]
<1> HIDE DEF length, fill
<1>8. later \in [0..length - 1 -> Int] /\ later[length - 1] = holding /\ later[0] = h[1] /\ h[0] \in Int /\ h[1] \in Int
  BY <1>3, <1>7
<1>9. ASSUME NEW n \in 1..length - 1 PROVE FillMoves(unheard'[n][2], later[n - 1], later[n])
  <2>1. n + 1 \in 1..length /\ n - 1 \in 0..length - 1 /\ n \in 0..length - 1
    BY <1>3
  <2>2. later[n - 1] = h[n] /\ later[n] = h[n + 1] /\ unheard'[n] = unheard[n + 1]
    BY <1>4, <2>1
  <2>3. QED
    BY <1>7, <2>1, <2>2
<1>10. FillMoves(fill[2], h[0], h[1])
  BY <1>3, <1>7
<1>11. Told(grid', h[1])
  <2>1. CASE IsRung(fill[2])
    BY <1>1, <1>6, <1>8, <1>10, <2>1, EntryTold
  <2>2. CASE ~IsRung(fill[2])
    <3>1. fill[1] \in DOMAIN grid.exits => ClosesIn(grid, fill[2])
      BY <1>3, <1>5 DEF PositionInv, ExitsClose
    <3>2. QED
      BY <1>1, <1>6, <1>8, <1>10, <2>2, <3>1, ExitTold
  <2>3. QED
    BY <2>1, <2>2
<1> HIDE DEF later
<1>15. PICK f : f = later
  OBVIOUS
<1>16. f[0] = h[1]
  BY <1>8, <1>15
<1>12. Leads(f)'
  <2>1. f \in [0..Len(unheard') -> Int] /\ f[Len(unheard')] = holding'
    BY <1>1, <1>3, <1>8, <1>15
  <2>2. \A n \in 1..Len(unheard') : FillMoves(unheard'[n][2], f[n - 1], f[n])
    BY <1>3, <1>9, <1>15
  <2>3. QED
    BY <2>1, <2>2 DEF Leads
<1>13. Told(grid', f[0])
  BY <1>11, <1>16
<1>14. PositionTold'
  BY <1>12, <1>13 DEF PositionTold
<1>17. QED
  BY <1>14, HeardClose DEF PositionInv

LEMMA PositionStarts == WatchInit => PositionInv
<1> SUFFICES ASSUME WatchInit PROVE PositionInv
  OBVIOUS
<1>1. holding = 0 /\ unheard = << >> /\ grid = Fresh(0) /\ seeding = NoSeeds
  BY DEF WatchInit
<1>2. grid.mode = NoBranch /\ DOMAIN grid.exits = {} /\ DOMAIN seeding.left = {}
  BY <1>1, NoneFacts DEF Fresh, NoSeeds
<1>3. ExitsClose /\ LeftIsExit
  BY <1>2 DEF ExitsClose, LeftIsExit
<1>4. Told(grid, 0)
  <2>1. IsFiniteSet({})
    BY FS_EmptySet
  <2>2. QED
    BY <1>2, <2>1 DEF Told, NoBranch, BuySide, SellSide
<1> DEFINE h == [n \in 0..0 |-> 0]
<1>5. Leads(h)
  BY <1>1 DEF Leads
<1>6. h[0] = 0
  OBVIOUS
<1> HIDE DEF h
<1>7. QED
  BY <1>3, <1>4, <1>5, <1>6 DEF PositionInv, PositionTold

LEMMA PositionStep ==
  ASSUME WatchInv, PositionInv, [WatchNext]_watchVars
  PROVE  PositionInv'
<1>1. ASSUME Ticks PROVE PositionInv'
  <2>1. ~work.busy /\ EnoughIds /\ TickFrame
    BY <1>1 DEF Ticks, TickFrame
  <2>2. Resize \/ Watch \/ Waits
    BY <1>1 DEF Ticks
  <2>3. QED
    BY <2>1, <2>2, ResizeTold, WatchTold, WaitsTold
<1>2. ASSUME NEW fresh \in BOOLEAN, Sync(fresh) PROVE PositionInv'
  BY <1>2, SyncTold, RebuildTold
<1>3. ASSUME Send PROVE PositionInv'
  <2>1. PICK refused : \E lost : Dispatch(refused, lost)
    BY <1>3 DEF Send
  <2>2. PICK lost : Dispatch(refused, lost)
    BY <2>1
  <2>3. QED
    BY <2>2, SendTold
<1>4. ASSUME NEW i \in WatchIds, Filled(i) PROVE PositionInv'
  BY <1>4, FilledTold
<1>5. ASSUME UNCHANGED watchVars \/ \E i \in WatchIds : Overdue(i) PROVE PositionInv'
  <2>1. UNCHANGED <<holding, unheard, grid, venue, seeding, work>>
    BY <1>5 DEF watchVars, Overdue
  <2>2. DuePlaces' = DuePlaces
    BY <2>1 DEF DuePlaces
  <2>3. ExitsClose' /\ LeftIsExit'
    BY <2>1, <2>2 DEF PositionInv, ExitsClose, LeftIsExit, ClosesIn
  <2>4. QED
    BY <2>1, <2>3, SameGrid, PositionFrame
<1>6. QED
  BY <1>1, <1>2, <1>3, <1>4, <1>5, HearTold DEF WatchNext, Synced

\* A machine that has heard every fill and believes itself flat is flat: the exits it has
\* outnumber the lots it was told of, and a fill that comes after its last exit is heard as
\* the first of a new branch.
THEOREM PositionIsKnown ==
  ASSUME StalePlaceGens > 1
  PROVE  WatchSpec => []MachineKnowsPosition
<1>1. WatchInv /\ PositionInv /\ [WatchNext]_watchVars => WatchInv' /\ PositionInv'
  BY WatchStep, PositionStep
<1>2. WatchInv /\ PositionInv => MachineKnowsPosition
  <2> SUFFICES ASSUME PositionInv, holding # 0, unheard = << >> PROVE grid.mode # NoBranch
    BY DEF MachineKnowsPosition
  <2>1. PICK h : Leads(h) /\ Told(grid, h[0])
    BY DEF PositionInv, PositionTold
  <2>2. h[0] = holding
    BY <2>1 DEF Leads
  <2>3. QED
    BY <2>1, <2>2 DEF Told
<1>3. QED
  BY StartHolds, PositionStarts, <1>1, <1>2, PTL DEF WatchSpec


-----------------------------------------------------------------------------
\* Proofs about the ingestion of fills: what the guard holds is what the trades
\* it has seen amount to.  The first lemmas are the induction over the tape.

\* A set of numbers has a least member.
Lower == {p \in Nat \X Nat : p[1] < p[2]}

LEMMA LowerIsWellFounded == IsWellFoundedOn(Lower, Nat)
BY NatLessThanWellFounded DEF OpToRel, Lower

LEMMA LeastNumber ==
  ASSUME NEW T, T \subseteq Nat, T # {}
  PROVE  \E n \in T : \A m \in T : n <= m
<1>1. PICK n \in T : \A m \in T : ~(<<m, n>> \in Lower)
  BY WFMin, LowerIsWellFounded
<1>2. \A m \in T : n <= m
  <2> TAKE m \in T
  <2>1. m \in Nat /\ n \in Nat /\ <<m, n>> \notin Lower
    BY <1>1
  <2>2. ~(m < n)
    BY <2>1 DEF Lower
  <2> QED BY <2>1, <2>2
<1> QED BY <1>2

\* A set of numbers below a bound has a greatest.
LEMMA GreatestNumber ==
  ASSUME NEW T, T \subseteq Nat, T # {}, NEW b \in Nat, \A m \in T : m <= b
  PROVE  Max(T) \in T /\ \A m \in T : m <= Max(T)
<1> DEFINE U == {n \in Nat : \A m \in T : m <= n}
<1>1. U \subseteq Nat /\ b \in U
  OBVIOUS
<1>2. PICK n \in U : \A k \in U : n <= k
  <2> HIDE DEF U
  <2> QED BY <1>1, LeastNumber
<1>3. n \in T
  <2> SUFFICES ASSUME n \notin T PROVE FALSE
    OBVIOUS
  <2>1. \A m \in T : m \in Nat /\ m < n
    BY <1>2
  <2>2. PICK m0 \in T : TRUE
    OBVIOUS
  <2>3. n - 1 \in Nat /\ \A m \in T : m <= n - 1
    BY <2>1, <2>2, <1>2
  <2>4. n <= n - 1
    BY <2>3, <1>2
  <2> QED BY <2>4, <1>2
<1>4. \E x \in T : \A y \in T : x >= y
  <2>1. \A y \in T : n >= y
    BY <1>2
  <2> QED BY <1>3, <2>1
<1>5. Max(T) \in T /\ \A y \in T : Max(T) >= y
  BY <1>4, Zenon DEF Max
<1> QED BY <1>5

\* The function StreakOf describes exists.
LEMMA StreakExists ==
  ASSUME NEW q, NEW len \in Nat
  PROVE  \E f : f = [n \in 0..len |-> IF n = 0 THEN Account ELSE Booked(f[n - 1], q[n])]
<1> DEFINE Good(k) == \E f : f = [n \in 0..k |-> IF n = 0 THEN Account ELSE Booked(f[n - 1], q[n])]
           Bad == {k \in Nat : ~Good(k)}
<1> SUFFICES ASSUME Bad # {} PROVE FALSE
  OBVIOUS
<1>1. PICK k \in Bad : \A m \in Bad : k <= m
  <2>1. Bad \subseteq Nat
    OBVIOUS
  <2> HIDE DEF Bad
  <2> QED BY <2>1, LeastNumber
<1>2. k # 0
  <2>1. [n \in 0..0 |-> Account]
        = [n \in 0..0 |-> IF n = 0 THEN Account ELSE Booked([m \in 0..0 |-> Account][n - 1], q[n])]
    OBVIOUS
  <2>2. Good(0)
    BY <2>1
  <2> HIDE DEF Good
  <2> QED BY <2>2
<1>3. k - 1 \in Nat /\ Good(k - 1)
  <2>1. k \in Nat /\ k - 1 \in Nat /\ ~(k <= k - 1)
    BY <1>2
  <2>2. k - 1 \notin Bad
    BY <2>1, <1>1
  <2> HIDE DEF Good
  <2> QED BY <2>1, <2>2
<1>4. PICK g : g = [n \in 0..(k - 1) |-> IF n = 0 THEN Account ELSE Booked(g[n - 1], q[n])]
  BY <1>3
<1> DEFINE f == [n \in 0..k |-> IF n = k THEN Booked(g[k - 1], q[k]) ELSE g[n]]
<1>5. \A n \in 0..k : f[n] = IF n = 0 THEN Account ELSE Booked(f[n - 1], q[n])
  <2> SUFFICES ASSUME NEW n \in 0..k
               PROVE  f[n] = IF n = 0 THEN Account ELSE Booked(f[n - 1], q[n])
    OBVIOUS
  <2>1. CASE n = k
    <3>1. n # 0 /\ n - 1 \in 0..k /\ n - 1 # k
      BY <2>1, <1>2
    <3>2. f[n] = Booked(g[n - 1], q[n])
      BY <2>1
    <3>3. f[n - 1] = g[n - 1]
      BY <3>1
    <3> QED BY <3>1, <3>2, <3>3
  <2>2. CASE n # k
    <3>1. n \in 0..(k - 1)
      BY <2>2, <1>3
    <3>2. f[n] = g[n]
      BY <2>2
    <3>3. g[n] = IF n = 0 THEN Account ELSE Booked(g[n - 1], q[n])
      BY <3>1, <1>4
    <3>4. CASE n = 0
      BY <3>2, <3>3, <3>4
    <3>5. CASE n # 0
      <4>1. n - 1 \in 0..k /\ n - 1 # k
        BY <3>1, <3>5, <1>3
      <4>2. f[n - 1] = g[n - 1]
        BY <4>1
      <4> QED BY <3>2, <3>3, <3>5, <4>2
    <3> QED BY <3>4, <3>5
  <2> QED BY <2>1, <2>2
<1>6. f = [n \in 0..k |-> IF n = 0 THEN Account ELSE Booked(f[n - 1], q[n])]
  BY <1>5
<1>7. Good(k)
  <2> HIDE DEF f
  <2> QED BY <1>6
<1> HIDE DEF Good
<1> QED BY <1>7

\* What the streak is before the first trade and after each.
LEMMA StreakSteps ==
  ASSUME NEW q, Len(q) \in Nat
  PROVE  /\ StreakOf(q)[0] = Account
         /\ \A n \in 1..Len(q) : StreakOf(q)[n] = Booked(StreakOf(q)[n - 1], q[n])
<1> DEFINE f == StreakOf(q)
<1>1. f = [n \in 0..Len(q) |-> IF n = 0 THEN Account ELSE Booked(f[n - 1], q[n])]
  <2>1. \E h : h = [n \in 0..Len(q) |-> IF n = 0 THEN Account ELSE Booked(h[n - 1], q[n])]
    BY StreakExists
  <2> QED BY <2>1, Zenon DEF StreakOf
<1>2. 0 \in 0..Len(q) /\ \A n \in 1..Len(q) : n \in 0..Len(q) /\ n # 0
  OBVIOUS
<1> HIDE DEF f
<1>3. \A n \in 0..Len(q) : f[n] = IF n = 0 THEN Account ELSE Booked(f[n - 1], q[n])
  BY <1>1
<1>4. f[0] = Account /\ \A n \in 1..Len(q) : f[n] = Booked(f[n - 1], q[n])
  BY <1>2, <1>3
<1> QED BY <1>4 DEF f

\* A further trade leaves the streaks of the earlier ones as they were.
LEMMA StreakKept ==
  ASSUME NEW q, NEW r, Len(q) \in Nat, Len(r) \in Nat, Len(q) <= Len(r),
         \A n \in 1..Len(q) : r[n] = q[n]
  PROVE  \A n \in 0..Len(q) : StreakOf(r)[n] = StreakOf(q)[n]
<1> DEFINE Bad == {n \in 0..Len(q) : StreakOf(r)[n] # StreakOf(q)[n]}
<1> SUFFICES ASSUME Bad # {} PROVE FALSE
  OBVIOUS
<1>1. PICK k \in Bad : \A m \in Bad : k <= m
  <2>1. Bad \subseteq Nat
    OBVIOUS
  <2> HIDE DEF Bad
  <2> QED BY <2>1, LeastNumber
<1>2. k \in 0..Len(q) /\ StreakOf(r)[k] # StreakOf(q)[k]
  OBVIOUS
<1>3. k # 0
  BY <1>2, StreakSteps
<1>4. k \in 1..Len(q) /\ k \in 1..Len(r) /\ k - 1 \in 0..Len(q) /\ ~(k <= k - 1)
  BY <1>2, <1>3
<1>5. StreakOf(r)[k - 1] = StreakOf(q)[k - 1]
  BY <1>4, <1>1
<1>6. StreakOf(r)[k] = Booked(StreakOf(r)[k - 1], r[k]) /\ StreakOf(q)[k] = Booked(StreakOf(q)[k - 1], q[k])
  BY <1>4, StreakSteps
<1> QED BY <1>2, <1>4, <1>5, <1>6

\* A service's record, whatever the accounts and the trips in it are.
IsService(svc) ==
  /\ svc = [of |-> svc.of, last |-> svc.last, trips |-> svc.trips, dirty |-> svc.dirty]
  /\ svc.of = [s \in Symbols |-> svc.of[s]]
  /\ svc.last \in Nat /\ svc.dirty \in BOOLEAN

IngestTypeOK ==
  /\ tape \in [Symbols -> Seq(Trades)]
  /\ ingestPhase \in {"idle", "fetched", "save state", "seal state", "save cursor", "down"}
  /\ batch \subseteq [sym : Symbols, id : Nat] /\ mark \in Nat
  /\ IsService(service) /\ IsService(files.state)
  /\ files = [cursor |-> files.cursor, torn |-> files.torn, state |-> files.state, seal |-> files.seal]
  /\ files.cursor \in Nat /\ files.torn \in BOOLEAN
  /\ files.seal \in {"none", "missing", "stale", "good"}
  /\ forgot \in BOOLEAN

\* A service knows what the trades of s up to its last amount to.
Knows(svc, s, trades) ==
  svc.last <= Len(trades) /\ svc.of[s] = StreakOf(trades)[svc.last]

\* The batch misses no number between the service's last and the mark.
BatchIsWhole(s) ==
  /\ \A t \in batch : t.id \in 1..Len(tape[s]) /\ t.id <= mark
  /\ \A n \in Nat : service.last < n /\ n <= mark => [sym |-> s, id |-> n] \in batch

\* With one symbol: what the service has not seen is ahead of the cursor of the
\* poll and of the files.
IngestInv(s) ==
  /\ ingestPhase # "down" => Knows(service, s, tape[s])
  /\ Knows(files.state, s, tape[s])
  /\ files.seal = "none" => files.state.last = 0
  /\ files.cursor <= files.state.last
  /\ ingestPhase = "fetched" => BatchIsWhole(s)
  /\ ingestPhase \in {"idle", "save state", "seal state", "save cursor"} => mark <= service.last
  /\ ingestPhase \in {"idle", "seal state", "save cursor"} \/ ~service.dirty =>
       service.last <= files.state.last

Ingested == IngestTypeOK /\ \A s \in Symbols : Symbols = {s} /\ ~forgot => IngestInv(s)

LEMMA NewServiceIsService ==
  IsService(NewService) /\ NewService.last = 0
BY DEF IsService, NewService

\* A service that only cleans its dirty flag, and one that takes a trade.
LEMMA CleanedService ==
  ASSUME NEW svc, IsService(svc)
  PROVE  /\ IsService([svc EXCEPT !.dirty = FALSE])
         /\ [svc EXCEPT !.dirty = FALSE].of = svc.of /\ [svc EXCEPT !.dirty = FALSE].last = svc.last
<1>1. PICK of, last, trips, dirty : svc = [of |-> of, last |-> last, trips |-> trips, dirty |-> dirty]
  BY Zenon DEF IsService
<1>2. svc.of = of /\ svc.last = last
  BY <1>1
<1>3. [svc EXCEPT !.dirty = FALSE] = [of |-> of, last |-> last, trips |-> trips, dirty |-> FALSE]
  <2> DEFINE r == [svc EXCEPT !.dirty = FALSE]
  <2>1. svc \in [of : {of}, last : {last}, trips : {trips}, dirty : {dirty}]
    BY <1>1
  <2>2. r \in [of : {of}, last : {last}, trips : {trips}, dirty : {FALSE}]
    BY <2>1
  <2> HIDE DEF r
  <2>3. r = [of |-> r.of, last |-> r.last, trips |-> r.trips, dirty |-> r.dirty]
        /\ r.of = of /\ r.last = last /\ r.trips = trips /\ r.dirty = FALSE
    BY <2>2
  <2>4. r = [of |-> of, last |-> last, trips |-> trips, dirty |-> FALSE]
    BY <2>3
  <2> QED BY <2>4 DEF r
<1>4. of = [s \in Symbols |-> of[s]] /\ last \in Nat
  BY <1>2 DEF IsService
<1>5. IsService([of |-> of, last |-> last, trips |-> trips, dirty |-> FALSE])
  BY <1>4 DEF IsService
<1> QED BY <1>2, <1>3, <1>5

LEMMA ProcessedService ==
  ASSUME NEW svc, IsService(svc), NEW t \in [sym : Symbols, id : Nat]
  PROVE  /\ IsService(Processed(svc, t))
         /\ t.id <= svc.last => Processed(svc, t) = svc
         /\ t.id > svc.last => /\ Processed(svc, t).last = t.id
                               /\ Processed(svc, t).of[t.sym] = Booked(svc.of[t.sym], Raw(t))
                               /\ Processed(svc, t).dirty = TRUE
<1>0. t.id \in Nat /\ t.sym \in Symbols /\ svc.last \in Nat
  BY DEF IsService
<1>1. CASE t.id <= svc.last
  <2>1. Processed(svc, t) = svc
    BY <1>1 DEF Processed
  <2> QED BY <2>1, <1>1, <1>0
<1>2. CASE ~(t.id <= svc.last)
  <2> DEFINE new   == Booked(svc.of[t.sym], Raw(t))
             of    == [svc.of EXCEPT ![t.sym] = new]
             trips == IF new.tripped /\ ~svc.of[t.sym].tripped THEN svc.trips + 1 ELSE svc.trips
  <2>1. Processed(svc, t) = [of |-> of, last |-> t.id, dirty |-> TRUE, trips |-> trips]
    BY <1>2 DEF Processed
  <2>2. of = [s \in Symbols |-> of[s]] /\ of[t.sym] = new
    BY <1>0 DEF IsService
  <2> HIDE DEF of, trips, new
  <2>3. IsService([of |-> of, last |-> t.id, dirty |-> TRUE, trips |-> trips])
    BY <2>2, <1>0 DEF IsService
  <2>4. Processed(svc, t).last = t.id /\ Processed(svc, t).of = of /\ Processed(svc, t).dirty = TRUE
    BY <2>1
  <2>5. IsService(Processed(svc, t))
    BY <2>1, <2>3
  <2>6. Processed(svc, t).of[t.sym] = Booked(svc.of[t.sym], Raw(t))
    BY <2>4, <2>2 DEF new
  <2> QED BY <2>4, <2>5, <2>6, <1>2, <1>0
<1> QED BY <1>1, <1>2

LEMMA LastsAreNumbers ==
  ASSUME IngestTypeOK
  PROVE  service.last \in Nat /\ files.state.last \in Nat /\ files.cursor \in Nat /\ mark \in Nat
BY DEF IngestTypeOK, IsService

LEMMA TapeForms ==
  ASSUME IngestTypeOK, NEW s \in Symbols
  PROVE  /\ tape[s] \in Seq(Trades) /\ Len(tape[s]) \in Nat
         /\ DOMAIN tape[s] = 1..Len(tape[s])
<1>1. tape \in [Symbols -> Seq(Trades)]
  BY DEF IngestTypeOK
<1>2. tape[s] \in Seq(Trades)
  BY <1>1, Zenon
<1> HIDE DEF Trades
<1> QED BY <1>2

\* A service knows nothing yet, and knows as much after a further trade.
LEMMA KnowsNothing ==
  ASSUME NEW s \in Symbols, NEW q \in Seq(Trades)
  PROVE  Knows(NewService, s, q)
<1>1. NewService.last = 0 /\ NewService.of[s] = Account /\ Len(q) \in Nat
  BY DEF NewService
<1>2. StreakOf(q)[0] = Account
  BY <1>1, StreakSteps
<1> QED BY <1>1, <1>2 DEF Knows

LEMMA KnowsStill ==
  ASSUME NEW svc, IsService(svc), NEW s \in Symbols, NEW q \in Seq(Trades), NEW t \in Trades,
         Knows(svc, s, q)
  PROVE  Knows(svc, s, Append(q, t))
<1> DEFINE r == Append(q, t)
<1>1. Len(q) \in Nat /\ Len(r) = Len(q) + 1 /\ \A n \in 1..Len(q) : r[n] = q[n]
  OBVIOUS
<1> HIDE DEF r
<1>2. Len(r) \in Nat /\ Len(q) <= Len(r)
  BY <1>1
<1>3. \A n \in 0..Len(q) : StreakOf(r)[n] = StreakOf(q)[n]
  BY <1>1, <1>2, StreakKept
<1>4. svc.last \in 0..Len(q)
  BY <1>1 DEF Knows, IsService
<1>5. Knows(svc, s, r)
  BY <1>1, <1>3, <1>4 DEF Knows
<1> QED BY <1>5 DEF r

\* The next number is one the service knows after.
LEMMA KnowsNext ==
  ASSUME IngestTypeOK, NEW s \in Symbols, NEW t \in batch, t.sym = s,
         Knows(service, s, tape[s]), t.id = service.last + 1, t.id <= Len(tape[s])
  PROVE  Knows(Processed(service, t), s, tape[s])
<1>1. t \in [sym : Symbols, id : Nat] /\ IsService(service) /\ service.last \in Nat
  BY DEF IngestTypeOK, IsService
<1>2. t.id > service.last /\ t.id \in 1..Len(tape[s]) /\ t.id - 1 = service.last /\ Len(tape[s]) \in Nat
  BY <1>1, TapeForms
<1>3. /\ Processed(service, t).last = t.id
      /\ Processed(service, t).of[s] = Booked(service.of[s], Raw(t))
  BY <1>1, <1>2, ProcessedService
<1>4. StreakOf(tape[s])[t.id] = Booked(StreakOf(tape[s])[service.last], tape[s][t.id])
  BY <1>2, StreakSteps
<1> QED BY <1>2, <1>3, <1>4 DEF Knows, Raw

-----------------------------------------------------------------------------
\* One lemma per action.

LEMMA IngestInit ==
  ASSUME FIInit PROVE Ingested
<1>1. IsService(NewService) /\ NewService.last = 0
  BY NewServiceIsService
<1>0. [s \in Symbols |-> <<>>] \in [Symbols -> Seq(Trades)]
  OBVIOUS
<1>2. IngestTypeOK
  <2>1. /\ tape \in [Symbols -> Seq(Trades)] /\ ingestPhase = "idle" /\ batch = {} /\ mark = 0
        /\ service = NewService /\ forgot = FALSE
        /\ files = [cursor |-> 0, torn |-> FALSE, state |-> NewService, seal |-> "none"]
    BY <1>0 DEF FIInit
  <2>2. files.cursor = 0 /\ files.torn = FALSE /\ files.state = NewService /\ files.seal = "none"
    BY <2>1
  <2> QED BY <2>1, <2>2, <1>1 DEF IngestTypeOK
<1>3. ASSUME NEW s \in Symbols PROVE IngestInv(s)
  <2>1. Knows(NewService, s, <<>>)
    <3>1. <<>> \in Seq(Trades)
      OBVIOUS
    <3> QED BY <3>1, KnowsNothing
  <2> QED BY <2>1, <1>1 DEF FIInit, IngestInv
<1> QED BY <1>2, <1>3 DEF Ingested

LEMMA TradeIngested ==
  ASSUME Ingested, NEW s \in Symbols, NEW t \in Trades, Trade(s, t)
  PROVE  Ingested'
<1> USE DEF Ingested
<1>1. /\ tape' = [tape EXCEPT ![s] = Append(@, t)]
      /\ UNCHANGED <<ingestPhase, batch, mark, service, override, files, ingestFailures, forgot>>
  BY DEF Trade
<1>2. tape[s] \in Seq(Trades) /\ Append(tape[s], t) \in Seq(Trades) /\ tape'[s] = Append(tape[s], t)
  <2>1. tape[s] \in Seq(Trades) /\ tape \in [Symbols -> Seq(Trades)]
    BY TapeForms DEF IngestTypeOK
  <2>2. Append(tape[s], t) \in Seq(Trades)
    BY <2>1
  <2>3. tape'[s] = Append(tape[s], t)
    BY <2>1, <1>1
  <2> QED BY <2>1, <2>2, <2>3
<1>3. tape' \in [Symbols -> Seq(Trades)]
  BY <1>1, <1>2 DEF IngestTypeOK
<1>4. IngestTypeOK'
  BY <1>1, <1>3 DEF IngestTypeOK
<1>5. ASSUME NEW u \in Symbols, Symbols = {u}, ~forgot, IngestInv(u) PROVE IngestInv(u)'
  <2>1. u = s
    BY <1>5
  <2>2. Knows(files.state, s, tape'[s])
    <3>1. Knows(files.state, s, tape[s]) /\ IsService(files.state)
      BY <1>5, <2>1 DEF IngestInv, IngestTypeOK
    <3> HIDE DEF Ingested
    <3> QED BY <1>2, <3>1, KnowsStill
  <2>3. ingestPhase # "down" => Knows(service, s, tape'[s])
    <3>1. IsService(service) /\ (ingestPhase # "down" => Knows(service, s, tape[s]))
      BY <1>5, <2>1 DEF IngestInv, IngestTypeOK
    <3> HIDE DEF Ingested
    <3> QED BY <1>2, <3>1, KnowsStill
  <2>4. Len(tape[s]) \in Nat /\ Len(tape'[s]) = Len(tape[s]) + 1
    BY <1>2
  <2>5. BatchIsWhole(s) => BatchIsWhole(s)'
    <3>1. \A n \in 1..Len(tape[s]) : n \in 1..Len(tape'[s])
      BY <2>4
    <3> QED BY <3>1, <1>1 DEF BatchIsWhole
  <2> QED BY <1>1, <1>5, <2>1, <2>2, <2>3, <2>5 DEF IngestInv
<1> QED BY <1>1, <1>4, <1>5

\* A poll fetches what lies after the mark, without a gap.
LEMMA PollIngested ==
  ASSUME Ingested, Poll
  PROVE  Ingested'
<1> USE DEF Ingested
<1>1. PICK failed \in SUBSET Symbols :
        /\ ingestPhase = "idle"
        /\ batch' = UNION {Fetched(s) : s \in Symbols \ failed}
        /\ mark' = Max({mark} \cup {t.id : t \in batch'})
        /\ ingestPhase' = "fetched"
        /\ UNCHANGED <<tape, service, override, files, forgot>>
  BY DEF Poll
<1> DEFINE ids == {mark} \cup {t.id : t \in batch'}
<1>2. ASSUME NEW t \in batch'
      PROVE  /\ t.sym \in Symbols /\ t = [sym |-> t.sym, id |-> t.id] /\ t.id \in Nat
             /\ t.id \in 1..Len(tape[t.sym]) /\ t.id > mark /\ t.id <= mark + Page
  <2>1. PICK s \in Symbols : t \in Fetched(s)
    BY <1>1
  <2>2. DOMAIN tape[s] = 1..Len(tape[s]) /\ Len(tape[s]) \in Nat
    BY TapeForms
  <2>3. PICK n \in 1..Len(tape[s]) : n > mark /\ n <= mark + Page /\ t = [sym |-> s, id |-> n]
    BY <2>1, <2>2 DEF Fetched
  <2> QED BY <2>2, <2>3
<1>3. mark \in Nat /\ Page \in Nat
  BY FIAssumption DEF IngestTypeOK, FIAssumption
<1>4. mark' \in ids /\ \A n \in ids : n <= mark'
  <2>1. ids \subseteq Nat /\ ids # {}
    BY <1>2, <1>3
  <2>2. mark + Page \in Nat /\ \A n \in ids : n <= mark + Page
    BY <1>2, <1>3
  <2>3. Max(ids) \in ids /\ \A n \in ids : n <= Max(ids)
    <3> HIDE DEF ids
    <3> QED BY <2>1, <2>2, GreatestNumber
  <2>4. mark' = Max(ids)
    BY <1>1
  <2> HIDE DEF ids
  <2> QED BY <2>3, <2>4
<1>5. mark' \in Nat /\ mark' <= mark + Page
  BY <1>2, <1>3, <1>4
<1>6. IngestTypeOK'
  <2>1. batch' \subseteq [sym : Symbols, id : Nat]
    BY <1>2
  <2> QED BY <1>1, <1>5, <2>1 DEF IngestTypeOK
<1>7. ASSUME NEW s \in Symbols, Symbols = {s}, ~forgot, IngestInv(s) PROVE IngestInv(s)'
  <2>1. \A t \in batch' : t.sym = s /\ t.id \in 1..Len(tape[s]) /\ t.id <= mark'
    BY <1>2, <1>4, <1>7
  <2>2. ASSUME NEW n \in Nat, service.last < n, n <= mark' PROVE [sym |-> s, id |-> n] \in batch'
    <3>0. mark <= service.last /\ service.last \in Nat
      BY <1>1, <1>7 DEF IngestInv, IngestTypeOK, IsService
    <3>1. mark < n /\ n <= mark + Page
      BY <3>0, <2>2, <1>3, <1>5
    <3>2. PICK t \in batch' : t.id = mark'
      BY <1>3, <1>4, <1>5, <2>2, <3>1
    <3>3. mark' \in 1..Len(tape[s]) /\ Len(tape[s]) \in Nat
      BY <3>2, <2>1, TapeForms
    <3>4. n \in 1..Len(tape[s]) /\ DOMAIN tape[s] = 1..Len(tape[s])
      BY <3>1, <3>3, <2>2, <1>3, <1>5, TapeForms
    <3>5. [sym |-> s, id |-> n] \in Fetched(s)
      BY <3>1, <3>4 DEF Fetched
    <3>6. Symbols \ failed = {s}
      BY <3>2, <1>1, <1>7
    <3> QED BY <3>5, <3>6, <1>1
  <2>3. BatchIsWhole(s)'
    BY <1>1, <2>1, <2>2 DEF BatchIsWhole
  <2> QED BY <1>1, <1>7, <2>3 DEF IngestInv
<1> QED BY <1>1, <1>6, <1>7

\* The least of the batch is the next number, or one the service has seen.
LEMMA ProcessIngested ==
  ASSUME Ingested, NEW t \in batch, Process(t)
  PROVE  Ingested'
<1>1. /\ ingestPhase = "fetched" /\ \A other \in batch \ {t} : Before(t, other)
      /\ batch' = batch \ {t} /\ service' = Processed(service, t)
      /\ UNCHANGED <<tape, ingestPhase, mark, files, ingestFailures, forgot>>
  BY DEF Process
<1>2. t \in [sym : Symbols, id : Nat] /\ IsService(service) /\ service.last \in Nat /\ mark \in Nat
  BY DEF Ingested, IngestTypeOK, IsService
<1>3. /\ IsService(service')
      /\ t.id <= service.last => service' = service
      /\ t.id > service.last => service'.last = t.id /\ service'.dirty = TRUE
  BY <1>1, <1>2, ProcessedService
<1>4. IngestTypeOK'
  BY <1>1, <1>3 DEF Ingested, IngestTypeOK
<1>5. ASSUME NEW s \in Symbols, Symbols = {s}, ~forgot PROVE IngestInv(s)'
  <2>1. /\ Knows(service, s, tape[s]) /\ Knows(files.state, s, tape[s]) /\ BatchIsWhole(s)
        /\ files.seal = "none" => files.state.last = 0
        /\ files.cursor <= files.state.last
        /\ ~service.dirty => service.last <= files.state.last
    BY <1>1, <1>5 DEF Ingested, IngestInv
  <2>2. t.sym = s /\ t.id \in Nat /\ t = [sym |-> s, id |-> t.id]
        /\ t.id \in 1..Len(tape[s]) /\ t.id <= mark /\ Len(tape[s]) \in Nat
    BY <1>2, <1>5, <2>1, TapeForms DEF BatchIsWhole, Ingested
  <2>3. CASE t.id <= service.last
    <3>1. service' = service
      BY <1>3, <2>3
    <3>2. BatchIsWhole(s)'
      <4>1. ASSUME NEW n \in Nat, service'.last < n, n <= mark' PROVE [sym |-> s, id |-> n] \in batch'
        <5>1. [sym |-> s, id |-> n] \in batch
          BY <4>1, <3>1, <1>1, <2>1 DEF BatchIsWhole
        <5>2. n # t.id
          BY <4>1, <3>1, <2>3, <1>2, <2>2
        <5> QED BY <5>1, <5>2, <1>1
      <4>2. \A u \in batch' : u.id \in 1..Len(tape'[s]) /\ u.id <= mark'
        BY <1>1, <2>1 DEF BatchIsWhole
      <4> QED BY <4>1, <4>2 DEF BatchIsWhole
    <3> QED BY <1>1, <2>1, <3>1, <3>2 DEF IngestInv
  <2>4. CASE t.id > service.last
    <3>1. t.id = service.last + 1
      <4> DEFINE next == [sym |-> s, id |-> service.last + 1]
      <4>1. service.last + 1 \in Nat /\ service.last < service.last + 1 /\ service.last + 1 <= mark
        BY <1>2, <2>2, <2>4
      <4>2. next \in batch
        BY <4>1, <2>1 DEF BatchIsWhole
      <4>3. next = t \/ t.id <= next.id
        BY <4>2, <1>1, <1>2, <2>2, <4>1 DEF Before
      <4> QED BY <4>3, <4>1, <1>2, <2>2, <2>4
    <3>2. Knows(service', s, tape[s])
      BY <1>1, <2>1, <2>2, <3>1, KnowsNext DEF Ingested
    <3>3. service'.last = t.id /\ service'.dirty = TRUE
      BY <1>3, <2>4
    <3>4. BatchIsWhole(s)'
      <4>1. ASSUME NEW n \in Nat, service'.last < n, n <= mark' PROVE [sym |-> s, id |-> n] \in batch'
        <5>1. n # t.id /\ service.last < n
          BY <4>1, <3>3, <2>4, <1>2, <2>2
        <5>2. [sym |-> s, id |-> n] \in batch
          BY <4>1, <5>1, <1>1, <2>1 DEF BatchIsWhole
        <5> QED BY <5>1, <5>2, <1>1
      <4>2. \A u \in batch' : u.id \in 1..Len(tape'[s]) /\ u.id <= mark'
        BY <1>1, <2>1 DEF BatchIsWhole
      <4> QED BY <4>1, <4>2 DEF BatchIsWhole
    <3> QED BY <1>1, <2>1, <3>2, <3>3, <3>4 DEF IngestInv
  <2> QED BY <2>3, <2>4, <1>2, <2>2
<1> QED BY <1>1, <1>4, <1>5 DEF Ingested

LEMMA EndProcessIngested ==
  ASSUME Ingested, EndProcess
  PROVE  Ingested'
<1>1. /\ ingestPhase = "fetched" /\ batch = {}
      /\ ingestPhase' = IF service.dirty THEN "save state" ELSE "save cursor"
      /\ UNCHANGED <<tape, batch, mark, service, override, files, ingestFailures, forgot>>
  BY DEF EndProcess
<1>2. IngestTypeOK'
  BY <1>1 DEF Ingested, IngestTypeOK
<1>3. ASSUME NEW s \in Symbols, IngestInv(s) PROVE IngestInv(s)'
  <2>1. BatchIsWhole(s) /\ mark \in Nat /\ service.last \in Nat
    BY <1>1, <1>3 DEF Ingested, IngestInv, IngestTypeOK, IsService
  <2>2. ~(service.last < mark)
    <3> SUFFICES ASSUME service.last < mark PROVE FALSE
      OBVIOUS
    <3>1. mark <= mark
      BY <2>1
    <3>2. [sym |-> s, id |-> mark] \in batch
      BY <2>1, <3>1 DEF BatchIsWhole
    <3> QED BY <1>1, <3>2
  <2>3. mark <= service.last
    BY <2>1, <2>2
  <2> QED BY <1>1, <1>3, <2>3 DEF IngestInv
<1> QED BY <1>1, <1>2, <1>3 DEF Ingested

\* The state file is replaced by a later state, or by the first.
LEMMA SaveStateIngested ==
  ASSUME Ingested, SaveState
  PROVE  Ingested'
<1>1. /\ ingestPhase = "save state" /\ service' = [service EXCEPT !.dirty = FALSE]
      /\ UNCHANGED <<tape, batch, mark, override, ingestFailures, forgot>>
  BY DEF SaveState
<1>2. IsService(service) /\ IsService(files.state)
  BY DEF Ingested, IngestTypeOK
<1>3. IsService(service') /\ service'.of = service.of /\ service'.last = service.last
  BY <1>1, <1>2, CleanedService
<1>4. service.last \in Nat /\ files.state.last \in Nat
  BY <1>2 DEF IsService
<1>5. CASE files.seal # "none" /\ service.last <= files.state.last
  <2>1. files' = files /\ ingestPhase' = "save cursor"
    BY <1>5 DEF SaveState
  <2>2. IngestTypeOK'
    BY <1>1, <1>3, <2>1 DEF Ingested, IngestTypeOK
  <2>3. ASSUME NEW s \in Symbols, IngestInv(s) PROVE IngestInv(s)'
    BY <1>1, <1>3, <1>5, <2>1, <2>3 DEF IngestInv, Knows
  <2> QED BY <1>1, <2>2, <2>3 DEF Ingested
<1>6. CASE ~(files.seal # "none" /\ service.last <= files.state.last)
  <2>1. PICK seal \in {"missing", "stale"} : files' = [files EXCEPT !.state = service', !.seal = seal]
    BY <1>6, Zenon DEF SaveState
  <2>2. ingestPhase' = "seal state"
    BY <1>6 DEF SaveState
  <2>3. /\ files'.cursor = files.cursor /\ files'.torn = files.torn
        /\ files'.state = service' /\ files'.seal = seal
        /\ files' = [cursor |-> files'.cursor, torn |-> files'.torn, state |-> files'.state, seal |-> files'.seal]
    <3> PICK new : new = service'
      OBVIOUS
    <3>1. files \in [cursor : {files.cursor}, torn : {files.torn}, state : {files.state}, seal : {files.seal}]
      BY DEF Ingested, IngestTypeOK
    <3>2. files' \in [cursor : {files.cursor}, torn : {files.torn}, state : {new}, seal : {seal}]
      BY <3>1, <2>1
    <3> QED BY <3>2
  <2>4. IngestTypeOK'
    BY <1>1, <1>3, <2>2, <2>3 DEF Ingested, IngestTypeOK
  <2>5. ASSUME NEW s \in Symbols, IngestInv(s) PROVE IngestInv(s)'
    <3>1. Knows(service', s, tape[s])
      BY <1>1, <1>3, <2>5 DEF IngestInv, Knows
    <3>2. files.state.last <= service.last
      <4>1. CASE files.seal = "none"
        <5>1. files.state.last = 0
          BY <4>1, <2>5 DEF IngestInv
        <5> QED BY <5>1, <1>4
      <4>2. CASE files.seal # "none"
        <5>1. ~(service.last <= files.state.last)
          BY <4>2, <1>6
        <5> QED BY <5>1, <1>4
      <4> QED BY <4>1, <4>2
    <3>3. files.cursor <= files.state.last /\ mark <= service.last
      BY <1>1, <2>5 DEF IngestInv
    <3>4. files.cursor <= service.last
      BY <3>2, <3>3, <1>4, LastsAreNumbers DEF Ingested
    <3>5. /\ files'.cursor <= files'.state.last /\ mark' <= service'.last
          /\ service'.last <= files'.state.last /\ files'.seal # "none"
      <4>1. files'.state.last = service.last /\ service'.last = service.last
            /\ files'.cursor = files.cursor /\ mark' = mark
        BY <1>1, <1>3, <2>3
      <4>2. service.last <= service.last /\ files'.seal # "none"
        BY <1>4, <2>3
      <4> QED BY <4>1, <4>2, <3>3, <3>4
    <3>6. Knows(service', s, tape'[s]) /\ Knows(files'.state, s, tape'[s])
      BY <1>1, <2>3, <3>1
    <3> QED BY <2>2, <3>5, <3>6 DEF IngestInv
  <2> QED BY <1>1, <2>4, <2>5 DEF Ingested
<1> QED BY <1>5, <1>6

LEMMA SealStateIngested ==
  ASSUME Ingested, SealState
  PROVE  Ingested'
<1>1. /\ ingestPhase = "seal state" /\ files' = [files EXCEPT !.seal = "good"]
      /\ ingestPhase' = "save cursor"
      /\ UNCHANGED <<tape, batch, mark, service, override, ingestFailures, forgot>>
  BY DEF SealState
<1>2. files' = [cursor |-> files.cursor, torn |-> files.torn, state |-> files.state, seal |-> "good"]
  <2>1. files \in [cursor : {files.cursor}, torn : {files.torn}, state : {files.state}, seal : {files.seal}]
    BY DEF Ingested, IngestTypeOK
  <2>2. files' \in [cursor : {files.cursor}, torn : {files.torn}, state : {files.state}, seal : {"good"}]
    BY <2>1, <1>1
  <2> QED BY <2>2
<1>3. IngestTypeOK'
  BY <1>1, <1>2 DEF Ingested, IngestTypeOK
<1>4. ASSUME NEW s \in Symbols, IngestInv(s) PROVE IngestInv(s)'
  BY <1>1, <1>2, <1>4 DEF IngestInv
<1> QED BY <1>1, <1>3, <1>4 DEF Ingested

\* The cursor follows a mark the state file has passed.
LEMMA SaveCursorIngested ==
  ASSUME Ingested, SaveCursor
  PROVE  Ingested'
<1>1. /\ ingestPhase = "save cursor" /\ ingestPhase' = "idle"
      /\ files' = IF ~files.torn /\ mark < files.cursor THEN files
                  ELSE [files EXCEPT !.cursor = mark, !.torn = FALSE]
      /\ UNCHANGED <<tape, batch, mark, service, override, ingestFailures, forgot>>
  BY DEF SaveCursor
<1>2. PICK cursor \in {files.cursor, mark}, torn \in BOOLEAN :
        files' = [cursor |-> cursor, torn |-> torn, state |-> files.state, seal |-> files.seal]
  <2>1. files \in [cursor : {files.cursor}, torn : {files.torn}, state : {files.state}, seal : {files.seal}]
    BY DEF Ingested, IngestTypeOK
  <2>2. [files EXCEPT !.cursor = mark, !.torn = FALSE]
          \in [cursor : {mark}, torn : {FALSE}, state : {files.state}, seal : {files.seal}]
    BY <2>1
  <2>3. files' \in [cursor : {files.cursor, mark}, torn : {files.torn, FALSE}, state : {files.state}, seal : {files.seal}]
    BY <1>1, <2>1, <2>2
  <2>4. files.torn \in BOOLEAN
    BY DEF Ingested, IngestTypeOK
  <2> QED BY <2>3, <2>4
<1>3. IngestTypeOK'
  BY <1>1, <1>2 DEF Ingested, IngestTypeOK
<1>4. ASSUME NEW s \in Symbols, IngestInv(s) PROVE IngestInv(s)'
  <2>1. mark <= service.last /\ service.last <= files.state.last /\ files.cursor <= files.state.last
    BY <1>1, <1>4 DEF IngestInv
  <2>2. mark <= files.state.last
    BY <2>1, LastsAreNumbers DEF Ingested
  <2> QED BY <1>1, <1>2, <1>4, <2>1, <2>2 DEF IngestInv
<1> QED BY <1>1, <1>3, <1>4 DEF Ingested

\* What is lost with the process, the files still tell.
LEMMA DieIngested ==
  ASSUME Ingested, Die
  PROVE  Ingested'
<1>1. /\ ingestPhase' = "down" /\ batch' = {} /\ mark' = 0 /\ service' = NewService
      /\ files' = files \/ files' = [files EXCEPT !.torn = TRUE]
      /\ UNCHANGED <<tape, forgot>>
  BY DEF Die
<1>2. PICK torn \in BOOLEAN :
        files' = [cursor |-> files.cursor, torn |-> torn, state |-> files.state, seal |-> files.seal]
  <2>1. files \in [cursor : {files.cursor}, torn : BOOLEAN, state : {files.state}, seal : {files.seal}]
    BY DEF Ingested, IngestTypeOK
  <2>2. [files EXCEPT !.torn = TRUE]
          \in [cursor : {files.cursor}, torn : BOOLEAN, state : {files.state}, seal : {files.seal}]
    BY <2>1
  <2>3. files' \in [cursor : {files.cursor}, torn : BOOLEAN, state : {files.state}, seal : {files.seal}]
    BY <1>1, <2>1, <2>2
  <2> QED BY <2>3
<1>3. IngestTypeOK'
  BY <1>1, <1>2, NewServiceIsService DEF Ingested, IngestTypeOK
<1>4. ASSUME NEW s \in Symbols, IngestInv(s) PROVE IngestInv(s)'
  <2>1. 0 <= files.state.last
    BY LastsAreNumbers DEF Ingested
  <2> QED BY <1>1, <1>2, <1>4, <2>1, NewServiceIsService DEF IngestInv
<1> QED BY <1>1, <1>3, <1>4 DEF Ingested

\* A start that does not forget takes up the files' state, which the cursor
\* has not passed.
LEMMA StartIngested ==
  ASSUME Ingested, Start
  PROVE  Ingested'
<1>1. /\ ingestPhase = "down" /\ mark' = IF files.torn THEN 0 ELSE files.cursor
      /\ service' = IF files.seal = "stale" THEN NewService ELSE files.state
      /\ forgot' = (forgot \/ files.seal = "stale") /\ ingestPhase' = "idle"
      /\ UNCHANGED <<tape, batch, override, files, ingestFailures>>
  BY DEF Start
<1>2. files.cursor \in Nat /\ files.state.last \in Nat
  BY DEF Ingested, IngestTypeOK, IsService
<1>3. IngestTypeOK'
  BY <1>1, NewServiceIsService DEF Ingested, IngestTypeOK
<1>4. ASSUME NEW s \in Symbols, IngestInv(s), ~forgot' PROVE IngestInv(s)'
  <2>1. service' = files.state
    BY <1>1, <1>4
  <2>2. mark' <= files.state.last
    BY <1>1, <1>2, <1>4 DEF IngestInv
  <2>3. files.state.last <= files.state.last
    BY <1>2
  <2> QED BY <1>1, <1>4, <2>1, <2>2, <2>3 DEF IngestInv
<1> QED BY <1>1, <1>3, <1>4 DEF Ingested

\* However the process dies, whatever is fetched twice and however the pages
\* fall, the consecutive-loss guard of a single symbol counts every round trip
\* of the trades up to the last it has seen, and each of them once
\* (ConsecutiveLossService, fill_cursor.py, fill_ingest.py).
THEOREM StreakIsKept == FISpec => []StreakSurvivesRestarts
<1>1. FIInit => Ingested
  BY IngestInit
<1>2. Ingested /\ [FINext]_fiVars => Ingested'
  <2> SUFFICES ASSUME Ingested, [FINext]_fiVars PROVE Ingested'
    OBVIOUS
  <2>1. CASE \E s \in Symbols, t \in Trades : Trade(s, t)
    BY <2>1, TradeIngested
  <2>2. CASE \E t \in batch : Process(t)
    BY <2>2, ProcessIngested
  <2>3. CASE Poll
    BY <2>3, PollIngested
  <2>4. CASE EndProcess
    BY <2>4, EndProcessIngested
  <2>5. CASE SaveState
    BY <2>5, SaveStateIngested
  <2>6. CASE SealState
    BY <2>6, SealStateIngested
  <2>7. CASE SaveCursor
    BY <2>7, SaveCursorIngested
  <2>8. CASE Die
    BY <2>8, DieIngested
  <2>9. CASE Start
    BY <2>9, StartIngested
  <2>10. CASE UNCHANGED fiVars
    BY <2>10 DEF fiVars, Ingested, IngestTypeOK, IngestInv, BatchIsWhole, Knows, IsService
  <2> QED BY <2>1, <2>2, <2>3, <2>4, <2>5, <2>6, <2>7, <2>8, <2>9, <2>10 DEF FINext
<1>3. Ingested => StreakSurvivesRestarts
  BY DEF Ingested, IngestInv, Knows, StreakSurvivesRestarts
<1> QED BY <1>1, <1>2, <1>3, PTL DEF FISpec


-----------------------------------------------------------------------------
\* Proofs about the rolling ladder.  First what its recursive helpers return.

OrderSteps(f, S, last) ==
  [n \in 0..last |-> IF n = 0 THEN <<>> ELSE IF n \in S THEN Append(f[n - 1], n) ELSE f[n - 1]]

LEMMA InOrderExists ==
  ASSUME NEW S, NEW last \in Nat
  PROVE  \E f : f = OrderSteps(f, S, last)
<1> DEFINE Good(k) == \E f : f = OrderSteps(f, S, k)
           Bad == {k \in Nat : ~Good(k)}
<1> SUFFICES ASSUME Bad # {} PROVE FALSE
  OBVIOUS
<1>1. PICK k \in Bad : \A m \in Bad : k <= m
  <2>1. Bad \subseteq Nat
    OBVIOUS
  <2> HIDE DEF Bad
  <2> QED BY <2>1, LeastNumber
<1>2. k # 0
  <2> DEFINE z == [n \in 0..0 |-> <<>>]
  <2>1. z = OrderSteps(z, S, 0)
    BY DEF OrderSteps
  <2> HIDE DEF z
  <2>2. Good(0)
    BY <2>1
  <2> HIDE DEF Good
  <2> QED BY <2>2
<1>3. k - 1 \in Nat /\ Good(k - 1)
  <2>1. k \in Nat /\ k - 1 \in Nat /\ ~(k <= k - 1)
    BY <1>2
  <2>2. k - 1 \notin Bad
    BY <2>1, <1>1
  <2> HIDE DEF Good
  <2> QED BY <2>1, <2>2
<1>4. PICK g : g = OrderSteps(g, S, k - 1)
  BY <1>3
<1> DEFINE f == [n \in 0..k |-> IF n = k THEN IF k \in S THEN Append(g[k - 1], k) ELSE g[k - 1] ELSE g[n]]
<1>5. ASSUME NEW n \in 0..k
      PROVE  f[n] = IF n = 0 THEN <<>> ELSE IF n \in S THEN Append(f[n - 1], n) ELSE f[n - 1]
  <2>1. CASE n = k
    <3>1. n # 0 /\ n - 1 \in 0..k /\ n - 1 # k
      BY <2>1, <1>2
    <3>2. f[n] = IF n \in S THEN Append(g[n - 1], n) ELSE g[n - 1]
      BY <2>1
    <3>3. f[n - 1] = g[n - 1]
      BY <3>1
    <3> HIDE DEF f
    <3> QED BY <3>1, <3>2, <3>3
  <2>2. CASE n # k
    <3>1. n \in 0..(k - 1) /\ f[n] = g[n]
      BY <2>2, <1>3
    <3>2. n # 0 => f[n - 1] = g[n - 1]
      BY <3>1, <1>3
    <3>3. g[n] = IF n = 0 THEN <<>> ELSE IF n \in S THEN Append(g[n - 1], n) ELSE g[n - 1]
      BY <3>1, <1>4 DEF OrderSteps
    <3> HIDE DEF f
    <3> QED BY <3>1, <3>2, <3>3
  <2> QED BY <2>1, <2>2
<1>6. f = OrderSteps(f, S, k)
  BY <1>5 DEF OrderSteps
<1>7. Good(k)
  <2> HIDE DEF f
  <2> QED BY <1>6
<1> HIDE DEF Good
<1> QED BY <1>7

\* InOrder returns members of the set, each once.
LEMMA InOrderForms ==
  ASSUME NEW S, NEW last \in Nat
  PROVE  /\ InOrder(S, last) \in Seq(S \cap (1..last))
         /\ \A i, j \in DOMAIN InOrder(S, last) : i < j => InOrder(S, last)[i] < InOrder(S, last)[j]
<1> DEFINE Whole(q, n) == /\ q \in Seq(S \cap (1..n))
                          /\ \A i, j \in DOMAIN q : i < j => q[i] < q[j]
<1>1. PICK f : f = OrderSteps(f, S, last) /\ InOrder(S, last) = f[last]
  <2> DEFINE f == CHOOSE f : f = OrderSteps(f, S, last)
  <2>1. f = OrderSteps(f, S, last)
    BY InOrderExists, Zenon
  <2>2. InOrder(S, last) = f[last]
    BY DEF InOrder, OrderSteps
  <2> HIDE DEF f
  <2> QED BY <2>1, <2>2
<1>2. f[0] = <<>> /\ \A n \in 1..last : f[n] = IF n \in S THEN Append(f[n - 1], n) ELSE f[n - 1]
  <2>1. \A n \in 0..last : f[n] = IF n = 0 THEN <<>>
                                  ELSE IF n \in S THEN Append(f[n - 1], n) ELSE f[n - 1]
    BY <1>1, Zenon DEF OrderSteps
  <2>2. 0 \in 0..last /\ \A n \in 1..last : n \in 0..last /\ n # 0
    OBVIOUS
  <2> QED BY <2>1, <2>2
<1> DEFINE Bad == {n \in 0..last : ~Whole(f[n], n)}
<1>3. Bad = {}
  <2> SUFFICES ASSUME Bad # {} PROVE FALSE
    OBVIOUS
  <2>1. PICK k \in Bad : \A m \in Bad : k <= m
    <3>1. Bad \subseteq Nat
      OBVIOUS
    <3> HIDE DEF Bad
    <3> QED BY <3>1, LeastNumber
  <2>2. k # 0
    <3>1. Whole(<<>>, 0)
      OBVIOUS
    <3> HIDE DEF Whole
    <3> QED BY <3>1, <1>2
  <2>3. k \in 1..last /\ k - 1 \in 0..last /\ ~(k <= k - 1)
    BY <2>2
  <2>4. Whole(f[k - 1], k - 1)
    <3> HIDE DEF Whole
    <3> QED BY <2>1, <2>3
  <2>5. ASSUME NEW q, Whole(q, k - 1) PROVE Whole(q, k) /\ (k \in S => Whole(Append(q, k), k))
    <3>1. S \cap (1..(k - 1)) \subseteq S \cap (1..k)
      BY <2>3
    <3>2. q \in Seq(S \cap (1..k))
      BY <3>1, <2>5
    <3>3. Len(q) \in Nat /\ DOMAIN q = 1..Len(q) /\ \A i \in 1..Len(q) : q[i] \in 1..(k - 1)
      BY <2>5
    <3>4. ASSUME k \in S PROVE Whole(Append(q, k), k)
      <4> DEFINE r == Append(q, k)
      <4>1. k \in S \cap (1..k)
        BY <2>3, <3>4
      <4>2. r \in Seq(S \cap (1..k)) /\ Len(r) = Len(q) + 1 /\ DOMAIN r = 1..(Len(q) + 1)
            /\ r[Len(q) + 1] = k /\ \A i \in 1..Len(q) : r[i] = q[i]
        BY <4>1, <3>2
      <4> HIDE DEF r
      <4>3. ASSUME NEW i \in DOMAIN r, NEW j \in DOMAIN r, i < j PROVE r[i] < r[j]
        <5>1. i \in 1..Len(q) /\ r[i] = q[i]
          BY <4>2, <4>3, <3>3
        <5>2. CASE j = Len(q) + 1
          BY <5>1, <5>2, <4>2, <3>3, <2>3
        <5>3. CASE j # Len(q) + 1
          <6>1. j \in 1..Len(q) /\ r[j] = q[j]
            BY <5>3, <4>2, <3>3
          <6> QED BY <5>1, <6>1, <2>5, <3>3, <4>3
        <5> QED BY <5>2, <5>3
      <4> QED BY <4>2, <4>3 DEF r
    <3> QED BY <3>2, <3>4, <2>5
  <2>6. Whole(f[k], k)
    <3> HIDE DEF Whole
    <3> QED BY <2>3, <2>4, <2>5, <1>2
  <2> HIDE DEF Whole
  <2> QED BY <2>6
<1>4. Whole(f[last], last)
  <2> HIDE DEF Whole
  <2> QED BY <1>3
<1> QED BY <1>1, <1>4

\* What an order of the ladder, an action, and the records of the engine are.
OrderStates == {"unsent", "resting", "filled", "cancelled"}
LadderOrders == [side : {"BUY", "SELL"}, price : Int, tp : BOOLEAN, st : OrderStates]
LadderActs == [do : {"place", "retry", "cancel"}, id : Nat,
               why : {"GRID_FILL", "GRID_TRIM", "TP_CLOSE", "TP_SLOT_TAKEOVER", "TP_RENEW", "TP_EXPIRED"},
               with : Nat]
Watches == [prev : SUBSET Nat, cancels : SUBSET Nat, sent : SUBSET Nat, unsynced : SUBSET Nat,
            latch : {"none", "unsynced", "synced"}, failed : SUBSET Nat, dispatched : SUBSET Nat]
Ladders == [on : BOOLEAN, anchor : Int, offset : Int, buy : Int, sell : Int, age : Int]

LadderTypeOK ==
  /\ rollBook \in Seq(LadderOrders) /\ view.orders \subseteq RungIds
  /\ ladder \in Ladders /\ watch \in Watches
  /\ todo.acts \in Seq(LadderActs)
  /\ watch.prev \subseteq RungIds /\ watch.sent \subseteq RungIds /\ watch.unsynced \subseteq RungIds
  /\ shifted \subseteq RungIds /\ astray \in BOOLEAN

\* A grid order that may still be sent.
GridPlace(i) == todo.acts[i].do = "place" /\ ~rollBook[todo.acts[i].id].tp

\* Nothing is placed twice: what is to be placed is a take-profit or was never
\* sent, and no grid order is to be placed twice.
ActsAreDistinct ==
  /\ \A i \in DOMAIN todo.acts :
       /\ todo.acts[i].id \in RungIds
       /\ todo.acts[i].do = "retry" => rollBook[todo.acts[i].id].tp
       /\ todo.acts[i].do = "place" /\ todo.acts[i].why = "TP_CLOSE" => rollBook[todo.acts[i].id].tp
       /\ GridPlace(i) => rollBook[todo.acts[i].id].st = "unsent"
  /\ \A i, j \in DOMAIN todo.acts :
       GridPlace(i) /\ GridPlace(j) /\ todo.acts[i].id = todo.acts[j].id => i = j
  /\ \A o \in DOMAIN retries : o \in RungIds /\ rollBook[o].tp
  /\ ~ladder.on => rollBook = <<>>

\* A cancel under way is registered, and is not of an order the engine waits for.
CancelsAreRegistered ==
  /\ \A i \in DOMAIN todo.acts :
       todo.acts[i].do = "cancel" /\ ~rollBook[todo.acts[i].id].tp =>
         /\ todo.acts[i].id \in watch.cancels /\ todo.acts[i].id \notin watch.sent \cup watch.unsynced
         /\ rollBook[todo.acts[i].id].st # "unsent"
  /\ \A o \in Grid(view.orders) :
       /\ rollBook[o].st # "unsent" /\ o \notin watch.unsynced
       /\ rollBook[o].st = "cancelled" => o \in watch.cancels

\* What has left the snapshot has filled, unless its cancel is registered.
GoneAreFilled ==
  /\ \A o \in watch.prev :
       o \in Grid(RungIds) /\ (o \in view.orders \cup watch.cancels \/ rollBook[o].st = "filled")
  /\ \A o \in watch.sent :
       o \in RungIds /\ (rollBook[o].tp \/ o \in view.orders \/ rollBook[o].st = "filled")
  /\ \A o \in watch.unsynced : o \in RungIds /\ (rollBook[o].tp \/ rollBook[o].st \in {"resting", "filled"})
  /\ \A o \in Grid(shifted) : rollBook[o].st = "filled"

\* Whatever rests or has filled is known, and what no sync has confirmed holds the latch.
RestingAreKnown ==
  /\ \A o \in Grid(RungIds) : rollBook[o].st \in {"resting", "filled"} =>
       o \in shifted \cup watch.prev \cup watch.sent \cup watch.unsynced \cup hidden
  /\ \A o \in Grid(Resting) : o \in view.orders \cup watch.unsynced
  /\ \A o \in Grid(watch.unsynced) : watch.latch = "unsynced"
  /\ \A i \in DOMAIN todo.acts : GridPlace(i) => watch.latch = "unsynced"

\* The orders that rest or may still be sent.
Current(o) == rollBook[o].st = "resting" \/ \E i \in DOMAIN todo.acts : GridPlace(i) /\ todo.acts[i].id = o
LevelsAreDistinct ==
  \A o, other \in Grid(RungIds) :
    Current(o) /\ Current(other) /\ rollBook[o].side = rollBook[other].side
      /\ rollBook[o].price = rollBook[other].price => o = other

LadderInv ==
  /\ LadderTypeOK /\ ActsAreDistinct
  /\ ~astray => /\ CancelsAreRegistered /\ GoneAreFilled /\ RestingAreKnown /\ LevelsAreDistinct

-----------------------------------------------------------------------------
\* What the cycle layer returns: take-profits, their placements, and cancels of
\* orders the snapshot lists.

TpOrders == {o \in LadderOrders : o.tp /\ o.st = "unsent"}
GivenActs(first, next) ==
  {a \in LadderActs : \/ a.do = "place" /\ first <= a.id /\ a.id < next
                      \/ a.do = "cancel" /\ a.id \in view.orders}

InSequence(acc, first) ==
  /\ acc.next \in Nat /\ acc.orders \in Seq(TpOrders) /\ acc.next = first + Len(acc.orders)
  /\ acc.acts \in Seq(GivenActs(first, acc.next))

\* A sequence over a set is one over any larger set; two make one.
LEMMA SeqLarger ==
  ASSUME NEW S, NEW T, S \subseteq T, NEW q \in Seq(S)
  PROVE  q \in Seq(T)
OBVIOUS

LEMMA SeqJoined ==
  ASSUME NEW S, NEW q \in Seq(S), NEW r \in Seq(S)
  PROVE  q \o r \in Seq(S)
OBVIOUS

\* An action has its form.
LEMMA PlaceForms ==
  ASSUME NEW o \in Nat, NEW why \in {"GRID_FILL", "GRID_TRIM", "TP_CLOSE", "TP_SLOT_TAKEOVER", "TP_RENEW", "TP_EXPIRED"}
  PROVE  /\ Place(o, why) \in LadderActs
         /\ Place(o, why).do = "place" /\ Place(o, why).id = o /\ Place(o, why).why = why
BY DEF Place, LadderActs

LEMMA CancelForms ==
  ASSUME NEW o \in Nat, NEW with \in Nat,
         NEW why \in {"GRID_FILL", "GRID_TRIM", "TP_CLOSE", "TP_SLOT_TAKEOVER", "TP_RENEW", "TP_EXPIRED"}
  PROVE  /\ Cancel(o, why, with) \in LadderActs
         /\ Cancel(o, why, with).do = "cancel" /\ Cancel(o, why, with).id = o
BY DEF Cancel, LadderActs

LEMMA NewTakeProfit ==
  ASSUME NEW side \in {"BUY", "SELL"}, NEW price \in Int
  PROVE  LadderOrder(side, price, TRUE) \in TpOrders
BY DEF LadderOrder, LadderOrders, OrderStates, TpOrders

\* What an order of the book is.
LEMMA RungForms ==
  ASSUME LadderTypeOK, NEW o \in RungIds
  PROVE  /\ rollBook[o] \in LadderOrders /\ o \in Nat
         /\ rollBook[o].side \in {"BUY", "SELL"} /\ rollBook[o].price \in Int
         /\ rollBook[o].tp \in BOOLEAN /\ rollBook[o].st \in OrderStates
<1>1. rollBook \in Seq(LadderOrders) /\ o \in 1..Len(rollBook)
  BY DEF LadderTypeOK, RungIds
<1>2. rollBook[o] \in LadderOrders /\ o \in Nat
  <2> HIDE DEF LadderOrders
  <2> QED BY <1>1
<1> QED BY <1>2 DEF LadderOrders

\* Actions given before stay given when more orders follow.
LEMMA GivenStill ==
  ASSUME NEW first, NEW next \in Nat, NEW acts \in Seq(GivenActs(first, next)), NEW later \in Nat, next <= later
  PROVE  acts \in Seq(GivenActs(first, later))
<1>1. GivenActs(first, next) \subseteq GivenActs(first, later)
  <2>1. ASSUME NEW a \in GivenActs(first, next) PROVE a \in GivenActs(first, later)
    <3>1. a \in LadderActs /\ a.id \in Nat
      BY DEF GivenActs, LadderActs
    <3> QED BY <3>1 DEF GivenActs
  <2> QED BY <2>1
<1> QED BY <1>1, SeqLarger

\* One order more, its placement and a cancel.
LEMMA OneMore ==
  ASSUME NEW first \in Nat, NEW acc, InSequence(acc, first), NEW new \in TpOrders,
         NEW more \in Seq(GivenActs(first, acc.next + 1))
  PROVE  /\ acc.next + 1 \in Nat /\ Append(acc.orders, new) \in Seq(TpOrders)
         /\ acc.next + 1 = first + Len(Append(acc.orders, new))
         /\ acc.acts \o more \in Seq(GivenActs(first, acc.next + 1))
<1>1. acc.next \in Nat /\ acc.orders \in Seq(TpOrders) /\ acc.next = first + Len(acc.orders)
      /\ acc.acts \in Seq(GivenActs(first, acc.next))
  BY DEF InSequence
<1>2. acc.next + 1 \in Nat /\ acc.next <= acc.next + 1
  BY <1>1
<1>3. acc.acts \in Seq(GivenActs(first, acc.next + 1))
  BY <1>1, <1>2, GivenStill
<1>4. acc.acts \o more \in Seq(GivenActs(first, acc.next + 1))
  BY <1>3, SeqJoined
<1>5. Append(acc.orders, new) \in Seq(TpOrders) /\ Len(Append(acc.orders, new)) = Len(acc.orders) + 1
      /\ Len(acc.orders) \in Nat
  BY <1>1
<1> QED BY <1>1, <1>2, <1>4, <1>5

\* Of the rivals one is the farthest.
LEMMA FarthestExists ==
  ASSUME LadderTypeOK, NEW side \in {"BUY", "SELL"}, NEW rival, rival \subseteq RungIds, rival # {}
  PROVE  \E g \in rival : \A h \in rival :
           Away(side, rollBook[g].price - rollBook[h].price) >= 0
             /\ (rollBook[g].price = rollBook[h].price => g <= h)
<1> DEFINE far(o) == Away(side, rollBook[o].price)
           Best(g, n) == g \in rival /\ g <= n /\ \A h \in rival : h <= n => far(g) > far(h) \/ (far(g) = far(h) /\ g <= h)
           Past(n) == \A h \in rival : ~(h <= n)
           Bad == {n \in Nat : ~Past(n) /\ ~\E g \in rival : Best(g, n)}
<1>1. \A o \in rival : o \in Nat /\ o # 0 /\ o <= Len(rollBook) /\ rollBook[o].price \in Int /\ far(o) \in Int
  <2> TAKE o \in rival
  <2>1. o \in 1..Len(rollBook) /\ Len(rollBook) \in Nat
    BY DEF RungIds, LadderTypeOK
  <2>2. rollBook[o].price \in Int
    BY RungForms
  <2> QED BY <2>1, <2>2 DEF Away
<1>2. Len(rollBook) \in Nat
  BY DEF LadderTypeOK
<1>3. Bad = {}
  <2> SUFFICES ASSUME Bad # {} PROVE FALSE
    OBVIOUS
  <2>1. PICK k \in Bad : \A m \in Bad : k <= m
    <3>1. Bad \subseteq Nat
      OBVIOUS
    <3> HIDE DEF Bad
    <3> QED BY <3>1, LeastNumber
  <2>2. k \in Nat /\ k # 0
    <3>1. Past(0)
      BY <1>1
    <3> QED BY <3>1
  <2>3. k - 1 \in Nat /\ k - 1 \notin Bad
    BY <2>1, <2>2
  <2>4. k \in rival
    <3> SUFFICES ASSUME k \notin rival PROVE FALSE
      OBVIOUS
    <3>1. ASSUME NEW h \in rival PROVE h <= k <=> h <= k - 1
      <4>1. h \in Nat /\ h # k
        BY <1>1
      <4> HIDE DEF far, Best, None, Bad
      <4> QED BY <4>1, <2>2
    <3>2. Past(k) <=> Past(k - 1)
      BY <3>1
    <3>3. \A g \in rival : Best(g, k - 1) => Best(g, k)
      BY <3>1
    <3> QED BY <2>3, <3>2, <3>3
  <2>5. CASE Past(k - 1)
    <3>1. \A h \in rival : h <= k => h = k
      BY <2>5, <1>1, <2>2
    <3>2. Best(k, k)
      BY <3>1, <2>4, <2>2, <1>1
    <3> QED BY <3>2, <2>4
  <2>6. CASE ~Past(k - 1)
    <3>1. PICK g \in rival : Best(g, k - 1)
      BY <2>3, <2>6
    <3>2. \A h \in rival : h <= k => h <= k - 1 \/ h = k
      BY <1>1, <2>2
    <3>3. g < k /\ g <= k
      <4>1. g \in Nat /\ g <= k - 1
        BY <3>1, <1>1
      <4> HIDE DEF far, Best, None, Bad
      <4> QED BY <4>1, <2>2
    <3>4. CASE far(g) >= far(k)
      <4>1. far(g) > far(k) \/ (far(g) = far(k) /\ g <= k)
        BY <3>4, <3>3, <1>1, <2>4, SMTT(30)
      <4> HIDE DEF far
      <4>2. Best(g, k)
        BY <4>1, <3>1, <3>2, <3>3
      <4> QED BY <4>2
    <3>5. CASE ~(far(g) >= far(k))
      <4>1. \A h \in rival : h <= k - 1 => far(k) > far(h)
        <5> TAKE h \in rival
        <5>1. far(h) \in Int /\ far(g) \in Int /\ far(k) \in Int
          BY <1>1, <2>4
        <5> HIDE DEF far
        <5> QED BY <3>1, <3>5, <5>1
      <4>2. k <= k /\ far(k) = far(k)
        BY <2>2
      <4> HIDE DEF far
      <4>3. Best(k, k)
        BY <4>1, <4>2, <2>4, <3>2
      <4> QED BY <4>3, <2>4
    <3> QED BY <3>4, <3>5
  <2> QED BY <2>5, <2>6
<1>4. PICK g \in rival : Best(g, Len(rollBook))
  <2>1. Len(rollBook) \notin Bad
    BY <1>3
  <2>2. ~Past(Len(rollBook))
    BY <1>1
  <2> QED BY <1>2, <2>1, <2>2
<1>5. ASSUME NEW h \in rival
      PROVE  Away(side, rollBook[g].price - rollBook[h].price) >= 0
               /\ (rollBook[g].price = rollBook[h].price => g <= h)
  <2>1. far(g) > far(h) \/ (far(g) = far(h) /\ g <= h)
    BY <1>1, <1>4
  <2>2. rollBook[g].price \in Int /\ rollBook[h].price \in Int
    BY <1>1
  <2> QED BY <2>1, <2>2 DEF Away
<1> QED BY <1>5

\* A take-profit for one vanished order keeps the numbering.
LEMMA TakeProfitForms ==
  ASSUME LadderTypeOK, NEW first \in Nat, NEW acc, InSequence(acc, first), NEW o \in RungIds
  PROVE  InSequence(TakeProfit(acc, o), first)
<1> DEFINE side  == Other(rollBook[o].side)
           rival == {g \in Grid(view.orders) \ acc.claimed : rollBook[g].side = side}
           far   == CHOOSE g \in rival : \A h \in rival :
                      Away(side, rollBook[g].price - rollBook[h].price) >= 0
                        /\ (rollBook[g].price = rollBook[h].price => g <= h)
           tp    == acc.next
           new   == LadderOrder(side, rollBook[o].price + Away(side, 1), TRUE)
           more  == <<Place(tp, "TP_CLOSE")>>
                      \o (IF rival = {} THEN <<>> ELSE <<Cancel(far, "TP_SLOT_TAKEOVER", tp)>>)
           claimed == IF rival = {} THEN acc.claimed ELSE acc.claimed \cup {far}
           acts  == acc.acts \o <<Place(tp, "TP_CLOSE")>>
                      \o (IF rival = {} THEN <<>> ELSE <<Cancel(far, "TP_SLOT_TAKEOVER", tp)>>)
<1>1. TakeProfit(acc, o) = [next |-> tp + 1, orders |-> Append(acc.orders, new),
                            claimed |-> claimed, acts |-> acts]
  BY DEF TakeProfit
<1>2. side \in {"BUY", "SELL"} /\ rollBook[o].price + Away(side, 1) \in Int
  BY RungForms DEF Other, Away
<1>3. new \in TpOrders
  <2> DEFINE price == rollBook[o].price + Away(side, 1)
  <2>1. price \in Int /\ side \in {"BUY", "SELL"}
    BY <1>2
  <2> HIDE DEF price, side
  <2>2. LadderOrder(side, price, TRUE) \in TpOrders
    BY <2>1, NewTakeProfit
  <2> QED BY <2>2 DEF price
<1>4. tp \in Nat /\ tp + 1 \in Nat /\ first <= tp /\ tp < tp + 1
  BY DEF InSequence
<1>5. Place(tp, "TP_CLOSE") \in GivenActs(first, tp + 1)
  BY <1>4, PlaceForms DEF GivenActs
<1>6. rival # {} => Cancel(far, "TP_SLOT_TAKEOVER", tp) \in GivenActs(first, tp + 1)
  <2> SUFFICES ASSUME rival # {} PROVE Cancel(far, "TP_SLOT_TAKEOVER", tp) \in GivenActs(first, tp + 1)
    OBVIOUS
  <2>1. rival \subseteq RungIds /\ rival \subseteq view.orders
    BY DEF LadderTypeOK, Grid
  <2>2. \E g \in rival : \A h \in rival :
          Away(side, rollBook[g].price - rollBook[h].price) >= 0
            /\ (rollBook[g].price = rollBook[h].price => g <= h)
    <3> HIDE DEF rival, side
    <3> QED BY <2>1, <1>2, FarthestExists
  <2>3. far \in rival
    <3> HIDE DEF rival, side
    <3> QED BY <2>2, Zenon
  <2>4. far \in Nat /\ far \in view.orders
    <3> HIDE DEF rival, side, far
    <3> QED BY <2>1, <2>3, RungForms
  <2> HIDE DEF far, rival
  <2> QED BY <2>4, <1>4, CancelForms DEF GivenActs
<1> HIDE DEF side, rival, far, new, claimed
<1>7. more \in Seq(GivenActs(first, tp + 1)) /\ acc.acts \o more = acts
  <2>1. acc.acts \in Seq(GivenActs(first, tp))
    BY DEF InSequence
  <2> DEFINE p == Place(tp, "TP_CLOSE")
             c == Cancel(far, "TP_SLOT_TAKEOVER", tp)
  <2> HIDE DEF p, c
  <2>2. p \in GivenActs(first, tp + 1) /\ (rival # {} => c \in GivenActs(first, tp + 1))
    BY <1>5, <1>6 DEF p, c
  <2>3. CASE rival = {}
    <3>1. more = <<p>> \o <<>> /\ acts = acc.acts \o <<p>> \o <<>>
      BY <2>3 DEF p
    <3>2. <<p>> \o <<>> \in Seq(GivenActs(first, tp + 1))
      BY <2>2
    <3>3. acc.acts \o (<<p>> \o <<>>) = acc.acts \o <<p>> \o <<>>
      BY <2>1
    <3> QED BY <3>1, <3>2, <3>3
  <2>4. CASE rival # {}
    <3>1. more = <<p>> \o <<c>> /\ acts = acc.acts \o <<p>> \o <<c>>
      BY <2>4 DEF p, c
    <3>2. <<p>> \o <<c>> \in Seq(GivenActs(first, tp + 1))
      BY <2>2, <2>4
    <3>3. acc.acts \o (<<p>> \o <<c>>) = acc.acts \o <<p>> \o <<c>>
      BY <2>1
    <3> QED BY <3>1, <3>2, <3>3
  <2> QED BY <2>3, <2>4
<1> HIDE DEF acts, more
<1>8. /\ tp + 1 = first + Len(Append(acc.orders, new)) /\ Append(acc.orders, new) \in Seq(TpOrders)
      /\ acts \in Seq(GivenActs(first, tp + 1))
  BY <1>3, <1>7, OneMore
<1> QED BY <1>1, <1>4, <1>8 DEF InSequence

\* One expired take-profit keeps it as well.
IsRenewal(acc) ==
  acc = [next |-> acc.next, orders |-> acc.orders, acts |-> acc.acts, done |-> acc.done,
         cool |-> acc.cool, renewals |-> acc.renewals]

LEMMA RenewForms ==
  ASSUME LadderTypeOK, NEW first \in Nat, NEW acc, IsRenewal(acc), InSequence(acc, first), NEW o \in view.orders
  PROVE  IsRenewal(Renew(acc, o)) /\ InSequence(Renew(acc, o), first)
<1> DEFINE tps    == {t \in view.orders : rollBook[t].tp}
           size   == IF view.pos < 0 THEN -view.pos ELSE view.pos
           ahead  == Cardinality(tps) + 1 > size /\ Cardinality(tps) > 1
           tp     == acc.next
           place  == Place(tp, "TP_RENEW")
           cancel == Cancel(o, "TP_RENEW", tp)
           drop   == Cancel(o, "TP_EXPIRED", o)
           new    == LadderOrder(rollBook[o].side, rollBook[o].price, TRUE)
           more   == IF ahead THEN <<cancel, place>> ELSE <<place, cancel>>
           done   == acc.done \cup {o}
           spent  == acc.renewals + 1
           dropped == [acc EXCEPT !.acts = Append(@, Cancel(o, "TP_EXPIRED", o)), !.done = @ \cup {o}]
           renewed == [acc EXCEPT !.acts = @ \o (IF ahead THEN <<cancel, place>> ELSE <<place, cancel>>),
                                  !.done = @ \cup {o}, !.cool = FALSE, !.renewals = @ + 1,
                                  !.next = tp + 1,
                                  !.orders = Append(@, LadderOrder(rollBook[o].side, rollBook[o].price, TRUE))]
<1>1. Renew(acc, o) \in {acc, dropped, renewed}
  BY DEF Renew
<1>2. o \in RungIds /\ o \in Nat
  <2>1. o \in RungIds
    BY DEF LadderTypeOK
  <2> QED BY <2>1, RungForms
<1>3. tp \in Nat /\ tp + 1 \in Nat /\ first <= tp /\ tp < tp + 1
  BY DEF InSequence
<1>4. place \in GivenActs(first, tp + 1)
  BY <1>3, PlaceForms DEF GivenActs
<1>5. cancel \in GivenActs(first, tp + 1)
  BY <1>2, <1>3, CancelForms, SMTT(30) DEF GivenActs
<1>6. drop \in GivenActs(first, tp)
  BY <1>2, CancelForms DEF GivenActs
<1>7. new \in TpOrders
  <2>1. rollBook[o].side \in {"BUY", "SELL"} /\ rollBook[o].price \in Int
    BY <1>2, RungForms
  <2> QED BY <2>1, NewTakeProfit
<1>8. acc \in [next : {acc.next}, orders : {acc.orders}, acts : {acc.acts}, done : {acc.done},
               cool : {acc.cool}, renewals : {acc.renewals}]
  BY Zenon DEF IsRenewal
<1>9. acc.acts \in Seq(GivenActs(first, tp)) /\ acc.orders \in Seq(TpOrders)
      /\ acc.next = first + Len(acc.orders)
  BY DEF InSequence
<1>10. IsRenewal(dropped) /\ InSequence(dropped, first)
  <2> HIDE DEF drop
  <2>1. dropped = [acc EXCEPT !.acts = Append(acc.acts, drop), !.done = done]
    BY DEF drop
  <2> DEFINE acts == Append(acc.acts, drop)
  <2>2. acts \in Seq(GivenActs(first, tp))
    BY <1>6, <1>9
  <2> HIDE DEF acts, done, dropped
  <2>3. dropped \in [next : {acc.next}, orders : {acc.orders}, acts : {acts}, done : {done},
                     cool : {acc.cool}, renewals : {acc.renewals}]
    BY <1>8, <2>1 DEF acts
  <2>4. IsRenewal(dropped) /\ dropped.next = acc.next /\ dropped.orders = acc.orders /\ dropped.acts = acts
    BY <2>3 DEF IsRenewal
  <2> QED BY <2>2, <2>4, <1>3, <1>9 DEF InSequence
<1>11. IsRenewal(renewed) /\ InSequence(renewed, first)
  <2> DEFINE acts   == acc.acts \o more
             orders == Append(acc.orders, new)
             next   == tp + 1
  <2>0. more \in Seq(GivenActs(first, tp + 1))
    <3> PICK S : S = GivenActs(first, tp + 1)
      OBVIOUS
    <3>1. place \in S /\ cancel \in S
      BY <1>4, <1>5
    <3> HIDE DEF place, cancel, ahead
    <3>2. <<cancel, place>> \in Seq(S) /\ <<place, cancel>> \in Seq(S)
      BY <3>1
    <3>3. more \in Seq(S)
      BY <3>2
    <3> QED BY <3>3
  <2>1. renewed = [acc EXCEPT !.acts = acts, !.done = done, !.cool = FALSE, !.renewals = spent,
                              !.next = next, !.orders = orders]
    OBVIOUS
  <2> HIDE DEF new, more, done, spent
  <2>2. next \in Nat /\ orders \in Seq(TpOrders) /\ next = first + Len(orders)
        /\ acts \in Seq(GivenActs(first, next))
    BY <1>7, <2>0, OneMore
  <2> HIDE DEF acts, orders, next, renewed
  <2>3. renewed \in [next : {next}, orders : {orders}, acts : {acts}, done : {done},
                     cool : {FALSE}, renewals : {spent}]
    BY <1>8, <2>1
  <2>4. IsRenewal(renewed) /\ renewed.next = next /\ renewed.orders = orders /\ renewed.acts = acts
    BY <2>3 DEF IsRenewal
  <2> QED BY <2>2, <2>4 DEF InSequence
<1> HIDE DEF dropped, renewed
<1> QED BY <1>1, <1>10, <1>11

ClosingSteps(f, fresh, gone) ==
  [n \in 0..Len(gone) |-> IF n = 0 THEN fresh ELSE TakeProfit(f[n - 1], gone[n])]

LEMMA ClosingExists ==
  ASSUME NEW fresh, NEW gone, Len(gone) \in Nat
  PROVE  \E f : f = ClosingSteps(f, fresh, gone)
<1> DEFINE Upto(f, k) == [n \in 0..k |-> IF n = 0 THEN fresh ELSE TakeProfit(f[n - 1], gone[n])]
           Good(k) == \E f : f = Upto(f, k)
           Bad == {k \in 0..Len(gone) : ~Good(k)}
<1>1. Bad = {}
  <2> SUFFICES ASSUME Bad # {} PROVE FALSE
    OBVIOUS
  <2>1. PICK k \in Bad : \A m \in Bad : k <= m
    <3>1. Bad \subseteq Nat
      OBVIOUS
    <3> HIDE DEF Bad
    <3> QED BY <3>1, LeastNumber
  <2>2. k # 0
    <3> DEFINE z == [n \in 0..0 |-> fresh]
    <3>1. z = Upto(z, 0)
      OBVIOUS
    <3> HIDE DEF z, Upto
    <3>2. Good(0)
      BY <3>1
    <3> HIDE DEF Good
    <3> QED BY <3>2
  <2>3. k - 1 \in 0..Len(gone) /\ Good(k - 1)
    <3>1. k \in Nat /\ k - 1 \in 0..Len(gone) /\ ~(k <= k - 1)
      BY <2>2
    <3>2. k - 1 \notin Bad
      BY <3>1, <2>1
    <3> HIDE DEF Good
    <3> QED BY <3>1, <3>2
  <2>4. PICK g : g = Upto(g, k - 1)
    BY <2>3
  <2> DEFINE f == [n \in 0..k |-> IF n = k THEN TakeProfit(g[k - 1], gone[k]) ELSE g[n]]
  <2>5. ASSUME NEW n \in 0..k PROVE f[n] = IF n = 0 THEN fresh ELSE TakeProfit(f[n - 1], gone[n])
    <3>1. CASE n = k
      <4>1. n # 0 /\ n - 1 \in 0..k /\ n - 1 # k
        BY <3>1, <2>2
      <4>2. f[n] = TakeProfit(g[n - 1], gone[n])
        BY <3>1
      <4>3. f[n - 1] = g[n - 1]
        BY <4>1
      <4> HIDE DEF f
      <4> QED BY <4>1, <4>2, <4>3
    <3>2. CASE n # k
      <4>1. n \in 0..(k - 1) /\ f[n] = g[n]
        BY <3>2, <2>3
      <4>2. n # 0 => f[n - 1] = g[n - 1]
        BY <4>1, <2>3
      <4>3. g[n] = IF n = 0 THEN fresh ELSE TakeProfit(g[n - 1], gone[n])
        BY <4>1, <2>4
      <4> HIDE DEF f
      <4> QED BY <4>1, <4>2, <4>3
    <3> QED BY <3>1, <3>2
  <2>6. f = Upto(f, k)
    BY <2>5
  <2>7. Good(k)
    <3> HIDE DEF f, Upto
    <3> QED BY <2>6
  <2> HIDE DEF Good
  <2> QED BY <2>7
<1>2. Good(Len(gone))
  <2> HIDE DEF Good
  <2> QED BY <1>1
<1>3. \A f : Upto(f, Len(gone)) = ClosingSteps(f, fresh, gone)
  BY DEF ClosingSteps
<1> HIDE DEF Upto
<1> QED BY <1>2, <1>3

LEMMA ClosingForms ==
  ASSUME LadderTypeOK, NEW first \in Nat, NEW fresh, InSequence(fresh, first), NEW gone \in Seq(RungIds)
  PROVE  InSequence(Closing(fresh, gone), first)
<1>0. Len(gone) \in Nat /\ \A n \in 1..Len(gone) : gone[n] \in RungIds
  OBVIOUS
<1>1. PICK f : f = ClosingSteps(f, fresh, gone) /\ Closing(fresh, gone) = f[Len(gone)]
  <2> DEFINE f == CHOOSE f : f = ClosingSteps(f, fresh, gone)
  <2>1. f = ClosingSteps(f, fresh, gone)
    BY <1>0, ClosingExists, Zenon
  <2>2. Closing(fresh, gone) = f[Len(gone)]
    BY DEF Closing, ClosingSteps
  <2> HIDE DEF f
  <2> QED BY <2>1, <2>2
<1>2. f[0] = fresh /\ \A n \in 1..Len(gone) : f[n] = TakeProfit(f[n - 1], gone[n])
  <2>1. \A n \in 0..Len(gone) : f[n] = IF n = 0 THEN fresh ELSE TakeProfit(f[n - 1], gone[n])
    BY <1>1, Zenon DEF ClosingSteps
  <2>2. 0 \in 0..Len(gone) /\ \A n \in 1..Len(gone) : n \in 0..Len(gone) /\ n # 0
    BY <1>0
  <2> QED BY <2>1, <2>2
<1> DEFINE Sound(acc) == InSequence(acc, first)
           Bad == {n \in 0..Len(gone) : ~Sound(f[n])}
<1>3. Bad = {}
  <2> SUFFICES ASSUME Bad # {} PROVE FALSE
    OBVIOUS
  <2>1. PICK k \in Bad : \A m \in Bad : k <= m
    <3>1. Bad \subseteq Nat
      OBVIOUS
    <3> HIDE DEF Bad
    <3> QED BY <3>1, LeastNumber
  <2>2. k # 0
    BY <1>2
  <2>3. k \in 1..Len(gone) /\ k - 1 \in 0..Len(gone) /\ ~(k <= k - 1)
    BY <2>2, <1>0
  <2>4. Sound(f[k - 1])
    <3> HIDE DEF Sound
    <3> QED BY <2>1, <2>3
  <2>5. Sound(TakeProfit(f[k - 1], gone[k]))
    BY <2>3, <2>4, <1>0, TakeProfitForms
  <2> HIDE DEF Sound
  <2> QED BY <2>3, <2>5, <1>2
<1>4. Sound(f[Len(gone)])
  <2> HIDE DEF Sound
  <2> QED BY <1>0, <1>3
<1> QED BY <1>1, <1>4

RenewingSteps(f, ripe, expired) ==
  [n \in 0..Len(expired) |-> IF n = 0 THEN ripe ELSE Renew(f[n - 1], expired[n])]

LEMMA RenewingExists ==
  ASSUME NEW ripe, NEW expired, Len(expired) \in Nat
  PROVE  \E f : f = RenewingSteps(f, ripe, expired)
<1> DEFINE Upto(f, k) == [n \in 0..k |-> IF n = 0 THEN ripe ELSE Renew(f[n - 1], expired[n])]
           Good(k) == \E f : f = Upto(f, k)
           Bad == {k \in 0..Len(expired) : ~Good(k)}
<1>1. Bad = {}
  <2> SUFFICES ASSUME Bad # {} PROVE FALSE
    OBVIOUS
  <2>1. PICK k \in Bad : \A m \in Bad : k <= m
    <3>1. Bad \subseteq Nat
      OBVIOUS
    <3> HIDE DEF Bad
    <3> QED BY <3>1, LeastNumber
  <2>2. k # 0
    <3> DEFINE z == [n \in 0..0 |-> ripe]
    <3>1. z = Upto(z, 0)
      OBVIOUS
    <3> HIDE DEF z, Upto
    <3>2. Good(0)
      BY <3>1
    <3> HIDE DEF Good
    <3> QED BY <3>2
  <2>3. k - 1 \in 0..Len(expired) /\ Good(k - 1)
    <3>1. k \in Nat /\ k - 1 \in 0..Len(expired) /\ ~(k <= k - 1)
      BY <2>2
    <3>2. k - 1 \notin Bad
      BY <3>1, <2>1
    <3> HIDE DEF Good
    <3> QED BY <3>1, <3>2
  <2>4. PICK g : g = Upto(g, k - 1)
    BY <2>3
  <2> DEFINE f == [n \in 0..k |-> IF n = k THEN Renew(g[k - 1], expired[k]) ELSE g[n]]
  <2>5. ASSUME NEW n \in 0..k PROVE f[n] = IF n = 0 THEN ripe ELSE Renew(f[n - 1], expired[n])
    <3>1. CASE n = k
      <4>1. n # 0 /\ n - 1 \in 0..k /\ n - 1 # k
        BY <3>1, <2>2
      <4>2. f[n] = Renew(g[n - 1], expired[n])
        BY <3>1
      <4>3. f[n - 1] = g[n - 1]
        BY <4>1
      <4> HIDE DEF f
      <4> QED BY <4>1, <4>2, <4>3
    <3>2. CASE n # k
      <4>1. n \in 0..(k - 1) /\ f[n] = g[n]
        BY <3>2, <2>3
      <4>2. n # 0 => f[n - 1] = g[n - 1]
        BY <4>1, <2>3
      <4>3. g[n] = IF n = 0 THEN ripe ELSE Renew(g[n - 1], expired[n])
        BY <4>1, <2>4
      <4> HIDE DEF f
      <4> QED BY <4>1, <4>2, <4>3
    <3> QED BY <3>1, <3>2
  <2>6. f = Upto(f, k)
    BY <2>5
  <2>7. Good(k)
    <3> HIDE DEF f, Upto
    <3> QED BY <2>6
  <2> HIDE DEF Good
  <2> QED BY <2>7
<1>2. Good(Len(expired))
  <2> HIDE DEF Good
  <2> QED BY <1>1
<1>3. \A f : Upto(f, Len(expired)) = RenewingSteps(f, ripe, expired)
  BY DEF RenewingSteps
<1> HIDE DEF Upto
<1> QED BY <1>2, <1>3

LEMMA RenewingForms ==
  ASSUME LadderTypeOK, NEW first \in Nat, NEW ripe, IsRenewal(ripe) /\ InSequence(ripe, first), NEW expired \in Seq(view.orders)
  PROVE  IsRenewal(Renewing(ripe, expired)) /\ InSequence(Renewing(ripe, expired), first)
<1>0. Len(expired) \in Nat /\ \A n \in 1..Len(expired) : expired[n] \in view.orders
  OBVIOUS
<1>1. PICK f : f = RenewingSteps(f, ripe, expired) /\ Renewing(ripe, expired) = f[Len(expired)]
  <2> DEFINE f == CHOOSE f : f = RenewingSteps(f, ripe, expired)
  <2>1. f = RenewingSteps(f, ripe, expired)
    BY <1>0, RenewingExists, Zenon
  <2>2. Renewing(ripe, expired) = f[Len(expired)]
    BY DEF Renewing, RenewingSteps
  <2> HIDE DEF f
  <2> QED BY <2>1, <2>2
<1>2. f[0] = ripe /\ \A n \in 1..Len(expired) : f[n] = Renew(f[n - 1], expired[n])
  <2>1. \A n \in 0..Len(expired) : f[n] = IF n = 0 THEN ripe ELSE Renew(f[n - 1], expired[n])
    BY <1>1, Zenon DEF RenewingSteps
  <2>2. 0 \in 0..Len(expired) /\ \A n \in 1..Len(expired) : n \in 0..Len(expired) /\ n # 0
    BY <1>0
  <2> QED BY <2>1, <2>2
<1> DEFINE Sound(acc) == IsRenewal(acc) /\ InSequence(acc, first)
           Bad == {n \in 0..Len(expired) : ~Sound(f[n])}
<1>3. Bad = {}
  <2> SUFFICES ASSUME Bad # {} PROVE FALSE
    OBVIOUS
  <2>1. PICK k \in Bad : \A m \in Bad : k <= m
    <3>1. Bad \subseteq Nat
      OBVIOUS
    <3> HIDE DEF Bad
    <3> QED BY <3>1, LeastNumber
  <2>2. k # 0
    BY <1>2
  <2>3. k \in 1..Len(expired) /\ k - 1 \in 0..Len(expired) /\ ~(k <= k - 1)
    BY <2>2, <1>0
  <2>4. Sound(f[k - 1])
    <3> HIDE DEF Sound
    <3> QED BY <2>1, <2>3
  <2>5. Sound(Renew(f[k - 1], expired[k]))
    BY <2>3, <2>4, <1>0, RenewForms
  <2> HIDE DEF Sound
  <2> QED BY <2>3, <2>5, <1>2
<1>4. Sound(f[Len(expired)])
  <2> HIDE DEF Sound
  <2> QED BY <1>0, <1>3
<1> QED BY <1>1, <1>4

\* What the cycle layer adds to a tick.
LEMMA CycleForms ==
  ASSUME LadderTypeOK, NEW plan, Len(plan.places) \in Nat, NEW paused, NEW cool,
         NEW new, new = CycleOf(plan, paused, cool)
  PROVE  /\ new.orders \in Seq(TpOrders)
         /\ new.acts \in Seq(GivenActs(Len(rollBook) + Len(plan.places) + 1,
                                       Len(rollBook) + Len(plan.places) + 1 + Len(new.orders)))
<1> DEFINE first   == Len(rollBook) + Len(plan.places) + 1
           gone    == cycle.prev \ view.orders
           ours    == RegisteredCancels(paused) \cup plan.trims
           fresh   == [next |-> first, orders |-> <<>>, claimed |-> {}, acts |-> <<>>]
           given   == InOrder(Grid(gone \ ours), Len(rollBook))
           closing == Closing(fresh, given)
           tracked == (cycle.young \cup cycle.old) \ gone
           expired == (IF paused THEN tracked ELSE cycle.old) \cap view.orders
           ripe    == [next |-> closing.next, orders |-> closing.orders, acts |-> closing.acts,
                       done |-> {}, cool |-> cool, renewals |-> cycle.renewals]
           due     == InOrder(expired, Len(rollBook))
           renewed == Renewing(ripe, due)
<1>1. Len(rollBook) \in Nat /\ first \in Nat
  BY DEF LadderTypeOK
<1>2. InSequence(fresh, first)
  <2>1. <<>> \in Seq(TpOrders) /\ <<>> \in Seq(GivenActs(first, first)) /\ Len(<<>>) = 0
    OBVIOUS
  <2> HIDE DEF first
  <2> QED BY <1>1, <2>1 DEF InSequence
<1>3. given \in Seq(RungIds)
  <2>1. given \in Seq(Grid(gone \ ours) \cap (1..Len(rollBook)))
    <3> HIDE DEF gone, ours
    <3> QED BY <1>1, InOrderForms
  <2>2. Grid(gone \ ours) \cap (1..Len(rollBook)) \subseteq RungIds
    BY DEF RungIds
  <2> HIDE DEF gone, ours, given
  <2> QED BY <2>1, <2>2, SeqLarger
<1>4. InSequence(closing, first)
  <2> HIDE DEF fresh, given, first
  <2> QED BY <1>1, <1>2, <1>3, ClosingForms
<1>5. IsRenewal(ripe) /\ InSequence(ripe, first)
  <2> HIDE DEF closing, first
  <2>1. ripe.next = closing.next /\ ripe.orders = closing.orders /\ ripe.acts = closing.acts
    OBVIOUS
  <2>2. IsRenewal(ripe)
    BY DEF IsRenewal
  <2> HIDE DEF ripe
  <2> QED BY <1>4, <2>1, <2>2 DEF InSequence
<1>6. due \in Seq(view.orders)
  <2>1. due \in Seq(expired \cap (1..Len(rollBook)))
    <3> HIDE DEF expired
    <3> QED BY <1>1, InOrderForms
  <2>2. expired \cap (1..Len(rollBook)) \subseteq view.orders
    OBVIOUS
  <2> HIDE DEF expired, due
  <2> QED BY <2>1, <2>2, SeqLarger
<1>7. InSequence(renewed, first)
  <2> HIDE DEF ripe, due, first
  <2> QED BY <1>1, <1>5, <1>6, RenewingForms
<1>8. new.orders = renewed.orders /\ new.acts = renewed.acts
  BY DEF CycleOf
<1> HIDE DEF renewed
<1>9. renewed.next = first + Len(renewed.orders) /\ renewed.orders \in Seq(TpOrders)
      /\ renewed.acts \in Seq(GivenActs(first, renewed.next))
  BY <1>7 DEF InSequence
<1> QED BY <1>8, <1>9

-----------------------------------------------------------------------------
\* What the planner returns.

\* Placements only at levels without a listed order, and while one is to come
\* or under way the latch stays.
LEMMA GuardedForms ==
  ASSUME NEW w, w.latch \in {"none", "unsynced", "synced"}, NEW l,
         NEW active \in BOOLEAN, NEW paused \in BOOLEAN, NEW guard, guard = Guarded(w, l, active, paused)
  PROVE  /\ guard.places \subseteq Missing(l) /\ guard.cancels \subseteq Grid(view.orders)
         /\ guard.latch \in {"none", "unsynced", "synced"}
         /\ guard.places # {} => guard.latch = "unsynced" /\ (w.latch # "unsynced" \/ paused)
         /\ w.latch = "unsynced" /\ ~paused => guard.latch = "unsynced"
<1> DEFINE trims   == Grid(Extra(l))
           wanted  == IF active THEN Missing(l) ELSE {}
           lapsed  == paused /\ w.latch # "none"
           waiting == w.latch = "unsynced" /\ ~lapsed
           cleared == lapsed \/ (w.latch = "synced" /\ trims = {})
           latch   == IF cleared THEN "none" ELSE w.latch
           capped(level) ==
             Cardinality({o \in w.unsynced : rollBook[o].side = level[1]}) >= 2 * Levels
           chosen  == {level \in wanted : ~capped(level)}
<1>1. trims \subseteq Grid(view.orders) /\ wanted \subseteq Missing(l) /\ chosen \subseteq wanted
  BY DEF Extra, Grid
<1>2. CASE wanted = {} /\ trims = {}
  <2>1. guard = [places |-> {}, cancels |-> {}, latch |-> IF w.latch = "synced" THEN "none" ELSE w.latch]
    BY <1>2 DEF Guarded
  <2> QED BY <2>1
<1>3. CASE ~(wanted = {} /\ trims = {}) /\ waiting
  <2>1. guard = [places |-> {}, cancels |-> {}, latch |-> w.latch]
    BY <1>3 DEF Guarded
  <2> QED BY <2>1
<1>4. CASE ~(wanted = {} /\ trims = {}) /\ ~waiting /\ trims # {}
  <2>1. guard = [places |-> {}, cancels |-> trims, latch |-> latch]
    BY <1>4 DEF Guarded
  <2>2. latch \in {"none", "unsynced", "synced"} /\ (w.latch = "unsynced" /\ ~paused => FALSE)
    BY <1>4
  <2> HIDE DEF latch, trims
  <2> QED BY <2>1, <2>2, <1>1
<1>5. CASE ~(wanted = {} /\ trims = {}) /\ ~waiting /\ trims = {}
  <2>1. guard = [places |-> chosen, cancels |-> {}, latch |-> "unsynced"]
    BY <1>5 DEF Guarded
  <2>2. w.latch # "unsynced" \/ paused
    BY <1>5
  <2> HIDE DEF chosen, wanted
  <2> QED BY <2>1, <2>2, <1>1
<1> QED BY <1>2, <1>3, <1>4, <1>5

\* The levels of a ladder, innermost first, are distinct.
LEMMA LevelForms ==
  ASSUME Levels \in Nat, NEW center \in Int, NEW levels,
         levels = [i \in 1..(2 * Levels) |->
                     IF i % 2 = 1 THEN <<"BUY", center - (i + 1) \div 2>>
                                  ELSE <<"SELL", center + i \div 2>>]
  PROVE  \A i \in 1..(2 * Levels) :
           /\ levels[i] \in {"BUY", "SELL"} \X Int
           /\ \A j \in 1..(2 * Levels) : levels[i] = levels[j] => i = j
<1>1. 2 * Levels \in Nat
  OBVIOUS
<1> TAKE i \in 1..(2 * Levels)
<1>2. i \in Nat /\ (i + 1) \div 2 \in Int /\ i \div 2 \in Int
  BY <1>1
<1>3. levels[i] \in {"BUY", "SELL"} \X Int
  BY <1>2
<1>4. ASSUME NEW j \in 1..(2 * Levels), levels[i] = levels[j] PROVE i = j
  <2>1. j \in Nat /\ (j + 1) \div 2 \in Int /\ j \div 2 \in Int
    BY <1>1
  <2>2. CASE i % 2 = 1
    <3>1. j % 2 = 1 /\ center - (i + 1) \div 2 = center - (j + 1) \div 2
      BY <1>4, <2>2
    <3>2. (i + 1) \div 2 = (j + 1) \div 2
      BY <3>1, <1>2, <2>1
    <3>3. ASSUME NEW n \in Nat, n % 2 = 1 PROVE n = 2 * ((n + 1) \div 2) - 1
      <4>1. PICK k \in Nat : k = n \div 2
        OBVIOUS
      <4>2. n = 2 * k + 1
        BY <3>3, <4>1
      <4>3. (2 * (k + 1)) \div 2 = k + 1
        OBVIOUS
      <4>4. (n + 1) \div 2 = k + 1
        BY <4>2, <4>3
      <4> QED BY <4>2, <4>4
    <3>4. i = 2 * ((i + 1) \div 2) - 1 /\ j = 2 * ((j + 1) \div 2) - 1
      BY <3>1, <3>3, <2>2, <1>2, <2>1
    <3> QED BY <3>2, <3>4
  <2>3. CASE i % 2 # 1
    <3>1. j % 2 # 1 /\ center + i \div 2 = center + j \div 2
      BY <1>4, <2>3
    <3>2. i \div 2 = j \div 2
      BY <3>1, <1>2, <2>1
    <3>3. \A n \in Nat : n % 2 # 1 => n = 2 * (n \div 2)
      OBVIOUS
    <3>4. i = 2 * (i \div 2) /\ j = 2 * (j \div 2)
      BY <3>1, <3>3, <2>3, <1>2, <2>1
    <3> QED BY <3>2, <3>4
  <2> QED BY <2>2, <2>3
<1> QED BY <1>3, <1>4

LEMMA DetectedForms ==
  ASSUME LadderTypeOK, NEW w \in Watches
  PROVE  /\ Detected(w) \in Watches
         /\ Detected(w).prev = Grid(view.orders) /\ Detected(w).sent = {}
         /\ Detected(w).cancels = w.cancels \ Vanished
         /\ Detected(w).unsynced = w.unsynced /\ Detected(w).latch = w.latch
<1> DEFINE prev    == Grid(view.orders)
           cancels == w.cancels \ Vanished
<1>1. Detected(w) = [w EXCEPT !.sent = {}, !.cancels = cancels, !.prev = prev]
  BY DEF Detected
<1>2. prev \in SUBSET Nat /\ cancels \in SUBSET Nat
  BY DEF Grid, LadderTypeOK, RungIds, Watches
<1> HIDE DEF prev, cancels
<1>3. Detected(w) \in [prev : {prev}, cancels : {cancels}, sent : {{}}, unsynced : {w.unsynced},
                       latch : {w.latch}, failed : {w.failed}, dispatched : {w.dispatched}]
  BY <1>1 DEF Watches
<1>4. Detected(w) \in Watches
  BY <1>2, <1>3 DEF Watches
<1> QED BY <1>3, <1>4 DEF prev, cancels

LEMMA ShiftedForms ==
  ASSUME LadderTypeOK, NEW l \in Ladders, NEW fills \in SUBSET RungIds
  PROVE  Shifted(l, fills) \in Ladders /\ Shifted(l, fills).on = l.on
<1> DEFINE buys   == {o \in fills : rollBook[o].side = "BUY"}
           sells  == fills \ buys
           offset == l.offset - Cardinality(buys) + Cardinality(sells)
           sell   == l.sell + Cardinality(buys)
           buy    == l.buy + Cardinality(sells)
<1>1. Cardinality(buys) \in Nat /\ Cardinality(sells) \in Nat
  <2>1. IsFiniteSet(RungIds)
    BY FS_Interval DEF RungIds, LadderTypeOK
  <2>2. buys \in SUBSET RungIds /\ sells \in SUBSET RungIds
    OBVIOUS
  <2>3. IsFiniteSet(buys) /\ IsFiniteSet(sells)
    <3> HIDE DEF buys, sells
    <3> QED BY <2>1, <2>2, FS_Subset
  <2> HIDE DEF buys, sells
  <2> QED BY <2>3, FS_CardinalityType
<1>2. offset \in Int /\ sell \in Int /\ buy \in Int
  <2> HIDE DEF buys, sells
  <2> QED BY <1>1 DEF Ladders
<1>3. Shifted(l, fills) = IF ~l.on \/ fills = {} THEN l
        ELSE [l EXCEPT !.offset = offset, !.sell = sell, !.buy = buy, !.age = 0]
  BY DEF Shifted
<1> HIDE DEF offset, sell, buy
<1>4. [l EXCEPT !.offset = offset, !.sell = sell, !.buy = buy, !.age = 0]
        \in [on : {l.on}, anchor : {l.anchor}, offset : {offset}, buy : {buy}, sell : {sell}, age : {0}]
  <2>1. l \in [on : {l.on}, anchor : {l.anchor}, offset : {l.offset}, buy : {l.buy}, sell : {l.sell}, age : {l.age}]
    BY DEF Ladders
  <2> QED BY <2>1
<1>5. l.on \in BOOLEAN /\ l.anchor \in Int
  BY DEF Ladders
<1>6. [l EXCEPT !.offset = offset, !.sell = sell, !.buy = buy, !.age = 0] \in Ladders
  BY <1>2, <1>4, <1>5 DEF Ladders
<1> QED BY <1>3, <1>4, <1>6

LEMMA PlannedForms ==
  ASSUME NEW l \in Ladders, NEW mid \in Int
  PROVE  Planned(l, mid) \in Ladders /\ Planned(l, mid).on = TRUE
<1> DEFINE m == IF l.on THEN l ELSE [NoLadder EXCEPT !.on = TRUE, !.anchor = mid]
           up == m.age + 1
           On == [on : {TRUE}, anchor : Int, offset : Int, buy : Int, sell : Int, age : Int]
<1>1. m \in On
  <2>1. [NoLadder EXCEPT !.on = TRUE, !.anchor = mid] \in On
    <3>1. NoLadder \in [on : BOOLEAN, anchor : Int, offset : Int, buy : Int, sell : Int, age : Int]
      BY DEF NoLadder
    <3>2. \A n \in [on : BOOLEAN, anchor : Int, offset : Int, buy : Int, sell : Int, age : Int] :
            [n EXCEPT !.on = TRUE, !.anchor = mid] \in On
      OBVIOUS
    <3> QED BY <3>1, <3>2, Zenon
  <2>2. l.on => l \in On
    BY DEF Ladders
  <2> HIDE DEF On
  <2> QED BY <2>1, <2>2
<1> HIDE DEF m
<1>2. up \in Int
  BY <1>1
<1>3. Planned(l, mid) \in {m, [m EXCEPT !.buy = 0, !.sell = 0, !.age = 0], [m EXCEPT !.age = up]}
  BY DEF Planned, m
<1> HIDE DEF up
<1>4. \A n \in On : [n EXCEPT !.buy = 0, !.sell = 0, !.age = 0] \in On
  <2>1. \A n \in On, a, b, c \in Int : [n EXCEPT !.buy = a, !.sell = b, !.age = c] \in On
    OBVIOUS
  <2>2. 0 \in Int
    OBVIOUS
  <2> HIDE DEF On
  <2> QED BY <2>1, <2>2, Zenon
<1>5. \A n \in On : [n EXCEPT !.age = up] \in On
  BY <1>2
<1>6. \A n \in On : n \in Ladders /\ n.on = TRUE
  BY DEF Ladders
<1> HIDE DEF On
<1>7. Planned(l, mid) \in On
  BY <1>1, <1>3, <1>4, <1>5
<1> QED BY <1>6, <1>7

\* The plan of a tick: distinct placements at levels without a listed order,
\* cancels of listed orders, and what the engine remembers.
PlanIsSound(plan, paused) ==
  /\ plan.watch \in Watches /\ plan.ladder \in Ladders /\ plan.ladder.on = TRUE
  /\ plan.fills \subseteq RungIds /\ plan.trims \subseteq Grid(view.orders)
  /\ plan.places \in Seq({"BUY", "SELL"} \X Int)
  /\ \A i \in DOMAIN plan.places :
       At(plan.places[i]) = {} /\ \A j \in DOMAIN plan.places : plan.places[i] = plan.places[j] => i = j
  /\ plan.watch.prev = Grid(view.orders) /\ plan.watch.sent = {}
  /\ plan.watch.unsynced \in {watch.unsynced, {}}
  /\ ~paused =>
       /\ plan.watch.cancels = watch.cancels \ Vanished /\ plan.fills = GridFills
       /\ watch.latch = "unsynced" => plan.watch.latch = "unsynced" /\ plan.watch.unsynced = watch.unsynced
       /\ plan.places # <<>> => plan.watch.latch = "unsynced" /\ watch.latch # "unsynced"

LEMMA PlanForms ==
  ASSUME LadderTypeOK, RLAssumption, NEW mid \in Mids, NEW active \in BOOLEAN, NEW paused \in BOOLEAN,
         NEW plan, plan = PlanOf(mid, active, paused)
  PROVE  PlanIsSound(plan, paused)
<1> DEFINE seen  == IF paused THEN [watch EXCEPT !.cancels = {}] ELSE watch
           w0    == Detected(seen)
           fills == IF paused THEN (watch.sent \ view.orders) \cup Vanished ELSE GridFills
           l0    == Shifted(ladder, fills)
           anew  == Empty(l0, w0)
           w1    == IF anew THEN [w0 EXCEPT !.prev = {}, !.unsynced = {}] ELSE w0
           l1    == Planned(IF anew THEN NoLadder ELSE l0, mid)
           guard == Guarded(w1, l1, active, paused)
           center == l1.anchor + l1.offset
           levels == [i \in 1..(2 * Levels) |->
                        IF i % 2 = 1 THEN <<"BUY", center - (i + 1) \div 2>>
                                     ELSE <<"SELL", center + i \div 2>>]
           chosen == InOrder({i \in DOMAIN levels : levels[i] \in guard.places}, 2 * Levels)
           kept   == [w1 EXCEPT !.latch = guard.latch]
           places == [i \in DOMAIN chosen |-> levels[chosen[i]]]
<1>1. plan = [watch |-> kept, ladder |-> l1, fills |-> fills, trims |-> guard.cancels, places |-> places]
  BY DEF PlanOf
<1>2. seen \in Watches /\ seen.unsynced = watch.unsynced /\ seen.latch = watch.latch
      /\ (~paused => seen.cancels = watch.cancels)
  BY DEF LadderTypeOK, Watches
<1>3. /\ w0 \in Watches /\ w0.prev = Grid(view.orders) /\ w0.sent = {}
      /\ w0.unsynced = watch.unsynced /\ w0.latch = watch.latch
      /\ ~paused => w0.cancels = watch.cancels \ Vanished
  <2> HIDE DEF seen
  <2> QED BY <1>2, DetectedForms
<1>4. fills \in SUBSET RungIds
  BY DEF GridFills, Vanished, LadderTypeOK
<1>5. l0 \in Ladders /\ NoLadder \in Ladders
  <2>1. NoLadder \in Ladders
    BY DEF NoLadder, Ladders
  <2> HIDE DEF fills
  <2> QED BY <1>4, <2>1, ShiftedForms DEF LadderTypeOK
<1>6. anew => view.orders = {} /\ w0.latch # "unsynced"
  <2> HIDE DEF l0, w0
  <2> QED BY DEF Empty
<1>7. /\ w1 \in Watches /\ w1.prev = Grid(view.orders) /\ w1.sent = {} /\ w1.cancels = w0.cancels
      /\ w1.unsynced \in {watch.unsynced, {}} /\ w1.latch = watch.latch
      /\ w1.unsynced # watch.unsynced => watch.latch # "unsynced"
  <2> HIDE DEF w0, anew
  <2>1. CASE ~anew
    BY <1>3, <2>1
  <2>2. CASE anew
    <3> DEFINE e == [w0 EXCEPT !.prev = {}, !.unsynced = {}]
    <3>1. e \in [prev : {{}}, cancels : {w0.cancels}, sent : {w0.sent}, unsynced : {{}},
                 latch : {w0.latch}, failed : {w0.failed}, dispatched : {w0.dispatched}]
      BY <1>3 DEF Watches
    <3>2. e \in Watches
      BY <1>3, <3>1 DEF Watches
    <3>3. w1 = e
      BY <2>2
    <3>4. Grid(view.orders) = {}
      BY <1>6, <2>2 DEF Grid
    <3> HIDE DEF e, w1
    <3> QED BY <1>3, <1>6, <2>2, <3>1, <3>2, <3>3, <3>4
  <2> QED BY <2>1, <2>2
<1>8. l1 \in Ladders /\ l1.on = TRUE
  <2>1. mid \in Int
    BY DEF RLAssumption
  <2> DEFINE from == IF anew THEN NoLadder ELSE l0
  <2>2. from \in Ladders
    <3> HIDE DEF anew, l0
    <3> QED BY <1>5
  <2> HIDE DEF from
  <2>3. Planned(from, mid) \in Ladders /\ Planned(from, mid).on = TRUE
    BY <2>1, <2>2, PlannedForms
  <2> QED BY <2>3 DEF from
<1> HIDE DEF seen, w0, fills, l0, anew, w1, l1
<1>9. /\ guard.places \subseteq Missing(l1) /\ guard.cancels \subseteq Grid(view.orders)
      /\ guard.latch \in {"none", "unsynced", "synced"}
      /\ guard.places # {} => guard.latch = "unsynced" /\ (w1.latch # "unsynced" \/ paused)
      /\ w1.latch = "unsynced" /\ ~paused => guard.latch = "unsynced"
  <2>1. w1.latch \in {"none", "unsynced", "synced"}
    BY <1>7 DEF Watches
  <2> HIDE DEF guard
  <2>2. PICK g : g = Guarded(w1, l1, active, paused)
    OBVIOUS
  <2>3. guard = g
    BY <2>2 DEF guard
  <2> QED BY <2>1, <2>2, <2>3, GuardedForms
<1>10. center \in Int /\ Levels \in Nat
  BY <1>8 DEF Ladders, RLAssumption
<1>11. \A i \in 1..(2 * Levels) :
         /\ levels[i] \in {"BUY", "SELL"} \X Int
         /\ \A j \in 1..(2 * Levels) : levels[i] = levels[j] => i = j
  <2> HIDE DEF center
  <2> QED BY <1>10, LevelForms
<1>12. DOMAIN levels = 1..(2 * Levels)
  OBVIOUS
<1> HIDE DEF guard, levels, center
<1> DEFINE wanted == {i \in DOMAIN levels : levels[i] \in guard.places}
<1>13. /\ chosen \in Seq(wanted \cap (1..(2 * Levels)))
       /\ \A i, j \in DOMAIN chosen : i < j => chosen[i] < chosen[j]
  <2>1. 2 * Levels \in Nat
    BY <1>10
  <2> HIDE DEF wanted
  <2>2. chosen = InOrder(wanted, 2 * Levels)
    BY DEF wanted
  <2> QED BY <2>1, <2>2, InOrderForms
<1> HIDE DEF chosen
<1>14. /\ Len(chosen) \in Nat /\ DOMAIN chosen = 1..Len(chosen)
       /\ \A i \in 1..Len(chosen) : chosen[i] \in 1..(2 * Levels) /\ levels[chosen[i]] \in guard.places
  BY <1>13
<1>15. places \in Seq({"BUY", "SELL"} \X Int) /\ DOMAIN places = DOMAIN chosen /\ Len(places) = Len(chosen)
  <2>1. \A i \in 1..Len(chosen) : levels[chosen[i]] \in {"BUY", "SELL"} \X Int
    BY <1>14, <1>11
  <2>2. places = [i \in 1..Len(chosen) |-> levels[chosen[i]]]
    BY <1>14
  <2> HIDE DEF places
  <2> QED BY <1>14, <2>1, <2>2
<1>16. \A i \in DOMAIN places :
         places[i] \in guard.places /\ \A j \in DOMAIN places : places[i] = places[j] => i = j
  <2> SUFFICES ASSUME NEW i \in DOMAIN places
               PROVE  places[i] \in guard.places /\ \A j \in DOMAIN places : places[i] = places[j] => i = j
    OBVIOUS
  <2>1. i \in 1..Len(chosen) /\ places[i] = levels[chosen[i]]
    BY <1>14
  <2>2. ASSUME NEW j \in DOMAIN places, places[i] = places[j] PROVE i = j
    <3>1. j \in 1..Len(chosen) /\ places[j] = levels[chosen[j]]
      BY <1>14
    <3>2. chosen[i] = chosen[j] /\ chosen[i] \in Nat
      BY <1>11, <1>14, <2>1, <2>2, <3>1
    <3>3. ~(i < j) /\ ~(j < i)
      BY <1>13, <1>14, <2>1, <3>1, <3>2
    <3> QED BY <2>1, <3>1, <3>3, <1>14
  <2> QED BY <1>14, <2>1, <2>2
<1>17. /\ kept \in Watches /\ kept.prev = Grid(view.orders) /\ kept.sent = {}
       /\ kept.cancels = w1.cancels /\ kept.unsynced = w1.unsynced /\ kept.latch = guard.latch
  <2> DEFINE latch == guard.latch
  <2> HIDE DEF latch
  <2>1. kept = [w1 EXCEPT !.latch = latch]
    BY DEF latch
  <2>2. latch \in {"none", "unsynced", "synced"}
    BY <1>9 DEF latch
  <2> HIDE DEF kept
  <2>3. kept \in [prev : {w1.prev}, cancels : {w1.cancels}, sent : {w1.sent}, unsynced : {w1.unsynced},
                  latch : {latch}, failed : {w1.failed}, dispatched : {w1.dispatched}]
    BY <1>7, <2>1 DEF Watches
  <2>4. kept \in Watches
    BY <1>7, <2>2, <2>3 DEF Watches
  <2> QED BY <1>7, <2>3, <2>4 DEF latch
<1> HIDE DEF kept, places
<1>18. /\ plan.watch = kept /\ plan.ladder = l1 /\ plan.fills = fills /\ plan.trims = guard.cancels
       /\ plan.places = places
  BY <1>1
<1>19. \A i \in DOMAIN places : At(places[i]) = {}
  BY <1>9, <1>16 DEF Missing
<1>20. places # <<>> => guard.places # {}
  <2> SUFFICES ASSUME places # <<>> PROVE guard.places # {}
    OBVIOUS
  <2>1. Len(places) # 0 /\ Len(places) \in Nat /\ DOMAIN places = 1..Len(places)
    BY <1>14, <1>15
  <2>2. 1 \in DOMAIN places
    BY <2>1
  <2> QED BY <2>2, <1>16
<1>21. ~paused =>
         /\ kept.cancels = watch.cancels \ Vanished /\ fills = GridFills
         /\ watch.latch = "unsynced" => kept.latch = "unsynced" /\ kept.unsynced = watch.unsynced
         /\ places # <<>> => kept.latch = "unsynced" /\ watch.latch # "unsynced"
  BY <1>3, <1>7, <1>9, <1>17, <1>20 DEF fills
<1> QED BY <1>4, <1>7, <1>8, <1>9, <1>15, <1>16, <1>17, <1>18, <1>19, <1>21 DEF PlanIsSound

-----------------------------------------------------------------------------
\* What is dispatched: no grid order twice.

GridActs(from, to) == {a \in LadderActs : a.do = "place" /\ a.why = "GRID_FILL" /\ a.id \in from..to}
TpActs(from, to) == {a \in LadderActs : a.do = "place" /\ a.id \in from..to}
ListedCancels == {a \in LadderActs : a.do = "cancel" /\ a.id \in view.orders}
EachOnce(q, S) == \A i, j \in DOMAIN q : q[i] \in S /\ q[j] \in S /\ q[i].id = q[j].id => i = j

LEMMA Between ==
  ASSUME NEW n \in Nat, NEW a \in Nat, NEW b \in Nat, a + 1 <= n, n < a + 1 + b
  PROVE  n \in (a + 1)..(a + b)
OBVIOUS

LEMMA Outside ==
  ASSUME NEW n \in Nat, NEW a \in Nat, NEW b \in Nat, NEW c \in Nat, n \in (c + 1)..a
  PROVE  n \notin (a + 1)..(a + b)
OBVIOUS

LEMMA SeqAssociates ==
  ASSUME NEW S, NEW q \in Seq(S), NEW r \in Seq(S), NEW t \in Seq(S)
  PROVE  q \o r \o t = q \o (r \o t)
OBVIOUS

LEMMA JoinedIndex ==
  ASSUME NEW S, NEW q \in Seq(S), NEW r \in Seq(S)
  PROVE  /\ Len(q) \in Nat /\ Len(r) \in Nat
         /\ DOMAIN q = 1..Len(q) /\ DOMAIN r = 1..Len(r) /\ DOMAIN (q \o r) = 1..(Len(q) + Len(r))
         /\ \A i \in 1..Len(q) : (q \o r)[i] = q[i]
         /\ \A i \in 1..(Len(q) + Len(r)) : i \notin 1..Len(q) =>
              i - Len(q) \in 1..Len(r) /\ (q \o r)[i] = r[i - Len(q)]
OBVIOUS

LEMMA JoinedOnce ==
  ASSUME NEW S, NEW q \in Seq(LadderActs), NEW r \in Seq(LadderActs \ S), EachOnce(q, S)
  PROVE  EachOnce(q \o r, S)
<1>1. r \in Seq(LadderActs)
  <2> HIDE DEF LadderActs
  <2> QED OBVIOUS
<1> DEFINE b == q \o r
<1>2. /\ Len(q) \in Nat /\ DOMAIN q = 1..Len(q)
      /\ DOMAIN b = 1..(Len(q) + Len(r)) /\ \A i \in 1..Len(q) : b[i] = q[i]
      /\ \A i \in 1..(Len(q) + Len(r)) : i \notin 1..Len(q) =>
           i - Len(q) \in 1..Len(r) /\ b[i] = r[i - Len(q)]
  BY <1>1, JoinedIndex
<1>3. \A i \in 1..Len(r) : r[i] \notin S
  OBVIOUS
<1> HIDE DEF b
<1>4. \A i \in DOMAIN b : b[i] \in S => i \in 1..Len(q) /\ b[i] = q[i]
  BY <1>2, <1>3
<1>5. EachOnce(b, S)
  BY <1>2, <1>4 DEF EachOnce
<1> QED BY <1>5 DEF b

LEMMA OnceJoined ==
  ASSUME NEW S, NEW q \in Seq(LadderActs \ S), NEW r \in Seq(LadderActs), EachOnce(r, S)
  PROVE  EachOnce(q \o r, S)
<1>1. q \in Seq(LadderActs)
  <2> HIDE DEF LadderActs
  <2> QED OBVIOUS
<1> DEFINE b == q \o r
<1>2. /\ Len(q) \in Nat /\ Len(r) \in Nat /\ DOMAIN r = 1..Len(r)
      /\ DOMAIN b = 1..(Len(q) + Len(r)) /\ \A i \in 1..Len(q) : b[i] = q[i]
      /\ \A i \in 1..(Len(q) + Len(r)) : i \notin 1..Len(q) =>
           i - Len(q) \in 1..Len(r) /\ b[i] = r[i - Len(q)]
  BY <1>1, JoinedIndex
<1>3. \A i \in 1..Len(q) : q[i] \notin S
  OBVIOUS
<1> HIDE DEF b
<1>4. \A i \in DOMAIN b : b[i] \in S => i - Len(q) \in DOMAIN r /\ b[i] = r[i - Len(q)]
  BY <1>2, <1>3
<1>5. ASSUME NEW i \in DOMAIN b, NEW j \in DOMAIN b, b[i] \in S, b[j] \in S, b[i].id = b[j].id PROVE i = j
  <2>1. i - Len(q) = j - Len(q)
    BY <1>4, <1>5 DEF EachOnce
  <2> QED BY <2>1, <1>2
<1>6. EachOnce(b, S)
  BY <1>5 DEF EachOnce
<1> QED BY <1>6 DEF b

LEMMA ActionsForms ==
  ASSUME LadderTypeOK, NEW paused, NEW plan, PlanIsSound(plan, paused), NEW new,
         NEW size \in Nat, size = Len(rollBook) + Len(plan.places), Len(new.orders) \in Nat,
         new.acts \in Seq(GivenActs(size + 1, size + 1 + Len(new.orders)))
  PROVE  LET fromGrid == GridActs(Len(rollBook) + 1, size)
         IN /\ Actions(plan, new) \in
                 Seq(fromGrid \cup TpActs(size + 1, size + Len(new.orders)) \cup ListedCancels)
            /\ EachOnce(Actions(plan, new), fromGrid)
<1> DEFINE fromGrid  == GridActs(Len(rollBook) + 1, size)
           added == TpActs(size + 1, size + Len(new.orders))
           free(i) == \A j \in DOMAIN new.orders :
                        <<new.orders[j].side, new.orders[j].price>> # plan.places[i]
           some  == {i \in DOMAIN plan.places : free(i)}
           slots == InOrder(some, Len(plan.places))
           trims == InOrder(plan.trims, Len(rollBook))
           first == [i \in DOMAIN slots |-> Place(Len(rollBook) + slots[i], "GRID_FILL")]
           second == [i \in DOMAIN trims |-> Cancel(trims[i], "GRID_TRIM", trims[i])]
<1>1. Actions(plan, new) = first \o second \o new.acts
  BY DEF Actions
<1>2. Len(rollBook) \in Nat /\ Len(plan.places) \in Nat
  BY DEF LadderTypeOK, PlanIsSound
<1>3. /\ slots \in Seq(some \cap (1..Len(plan.places)))
      /\ \A i, j \in DOMAIN slots : i < j => slots[i] < slots[j]
  <2> HIDE DEF some
  <2> QED BY <1>2, InOrderForms
<1>4. trims \in Seq(plan.trims \cap (1..Len(rollBook)))
  BY <1>2, InOrderForms
<1> HIDE DEF slots, trims, some
<1>5. /\ Len(slots) \in Nat /\ DOMAIN slots = 1..Len(slots)
      /\ \A i \in 1..Len(slots) : slots[i] \in 1..Len(plan.places)
  BY <1>3
<1>6. /\ Len(first) = Len(slots) /\ DOMAIN first = 1..Len(slots)
      /\ \A i \in 1..Len(slots) : first[i] \in fromGrid /\ first[i].id = Len(rollBook) + slots[i]
      /\ first \in Seq(fromGrid)
  <2>1. ASSUME NEW i \in 1..Len(slots)
        PROVE  first[i] \in fromGrid /\ first[i].id = Len(rollBook) + slots[i]
    <3>1. first[i] = Place(Len(rollBook) + slots[i], "GRID_FILL")
      BY <1>5
    <3>2. Len(rollBook) + slots[i] \in Nat /\ Len(rollBook) + slots[i] \in (Len(rollBook) + 1)..size
      BY <1>2, <1>5
    <3> HIDE DEF first
    <3> QED BY <3>1, <3>2, PlaceForms DEF GridActs
  <2>2. first = [i \in 1..Len(slots) |-> first[i]]
    BY <1>5
  <2> HIDE DEF first, fromGrid
  <2>3. first \in Seq(fromGrid) /\ DOMAIN first = 1..Len(slots)
    BY <2>1, <2>2, <1>5
  <2> QED BY <2>1, <2>3, <1>5
<1>7. EachOnce(first, fromGrid)
  <2> HIDE DEF first, fromGrid
  <2>1. ASSUME NEW i \in 1..Len(slots), NEW j \in 1..Len(slots), first[i].id = first[j].id PROVE i = j
    <3>1. slots[i] = slots[j] /\ slots[i] \in Nat
      BY <1>2, <1>5, <1>6, <2>1
    <3>2. ~(i < j) /\ ~(j < i)
      <4>1. i < j => slots[i] < slots[j]
        BY <1>3, <1>5
      <4>2. j < i => slots[j] < slots[i]
        BY <1>3, <1>5
      <4> QED BY <3>1, <4>1, <4>2
    <3> QED BY <3>2, <1>5
  <2> QED BY <1>6, <2>1 DEF EachOnce
<1>8. second \in Seq(ListedCancels)
  <2>1. Len(trims) \in Nat /\ DOMAIN trims = 1..Len(trims)
        /\ \A i \in 1..Len(trims) : trims[i] \in plan.trims /\ trims[i] \in Nat
    BY <1>4
  <2>2. ASSUME NEW i \in 1..Len(trims) PROVE second[i] \in ListedCancels
    <3>1. second[i] = Cancel(trims[i], "GRID_TRIM", trims[i])
      BY <2>1
    <3>2. trims[i] \in view.orders /\ trims[i] \in Nat
      BY <2>1 DEF PlanIsSound, Grid
    <3>3. PICK o : o = trims[i]
      OBVIOUS
    <3>4. Cancel(o, "GRID_TRIM", o) \in ListedCancels
      BY <3>2, <3>3, CancelForms, SMTT(30) DEF ListedCancels
    <3> QED BY <3>1, <3>3, <3>4
  <2>3. second = [i \in 1..Len(trims) |-> second[i]]
    BY <2>1
  <2> HIDE DEF second
  <2> QED BY <2>1, <2>2, <2>3
<1>9. new.acts \in Seq(added \cup ListedCancels)
  <2>1. ASSUME NEW a \in GivenActs(size + 1, size + 1 + Len(new.orders)) PROVE a \in added \cup ListedCancels
    <3>1. a \in LadderActs /\ a.id \in Nat
      BY DEF GivenActs, LadderActs
    <3>2. Len(new.orders) \in Nat /\ size \in Nat
      OBVIOUS
    <3>3. CASE a.do = "place" /\ size + 1 <= a.id /\ a.id < size + 1 + Len(new.orders)
      <4>1. a.id \in (size + 1)..(size + Len(new.orders))
        BY <3>1, <3>2, <3>3, Between
      <4> QED BY <3>1, <3>3, <4>1 DEF TpActs
    <3>4. CASE a.do = "cancel" /\ a.id \in view.orders
      BY <3>1, <3>4 DEF ListedCancels
    <3> QED BY <3>3, <3>4 DEF GivenActs
  <2>2. GivenActs(size + 1, size + 1 + Len(new.orders)) \subseteq added \cup ListedCancels
    BY <2>1
  <2> HIDE DEF added
  <2> QED BY <2>2, SeqLarger
<1>10. fromGrid \cap (added \cup ListedCancels) = {} /\ fromGrid \subseteq LadderActs /\ added \subseteq LadderActs
       /\ ListedCancels \subseteq LadderActs
  <2>1. \A a \in fromGrid : a \notin added
    <3> TAKE a \in fromGrid
    <3>1. a.id \in Nat /\ a.id \in (Len(rollBook) + 1)..size
      BY DEF GridActs, LadderActs
    <3>2. a.id \notin (size + 1)..(size + Len(new.orders))
      <4>1. size \in Nat /\ Len(new.orders) \in Nat /\ Len(rollBook) \in Nat
        BY <1>2
      <4> QED BY <3>1, <4>1, Outside
    <3> QED BY <3>2 DEF TpActs
  <2> QED BY <2>1 DEF GridActs, TpActs, ListedCancels
<1> HIDE DEF first, second, fromGrid, added
<1> DEFINE rest == second \o new.acts
           All  == fromGrid \cup added \cup ListedCancels
<1>11. rest \in Seq(added \cup ListedCancels)
  BY <1>8, <1>9
<1>12. first \o second \o new.acts = first \o rest
  <2>1. first \in Seq(LadderActs) /\ second \in Seq(LadderActs) /\ new.acts \in Seq(LadderActs)
    <3>1. added \cup ListedCancels \subseteq LadderActs
      BY <1>10
    <3> QED BY <1>6, <1>8, <1>9, <1>10, <3>1, SeqLarger
  <2>2. first \o second \o new.acts = first \o (second \o new.acts)
    <3>1. \A q, r, t \in Seq(LadderActs) : q \o r \o t = q \o (r \o t)
      <4> HIDE DEF LadderActs
      <4> QED BY SeqAssociates, SMTT(30)
    <3> QED BY <2>1, <3>1, Zenon
  <2> QED BY <2>2 DEF rest
<1> HIDE DEF rest
<1>13. first \in Seq(LadderActs) /\ rest \in Seq(LadderActs \ fromGrid)
  <2>1. fromGrid \subseteq LadderActs /\ added \cup ListedCancels \subseteq LadderActs \ fromGrid
    BY <1>10
  <2> QED BY <1>6, <1>11, <2>1, SeqLarger
<1>14. EachOnce(first \o rest, fromGrid)
  BY <1>7, <1>13, JoinedOnce
<1>15. first \o rest \in Seq(All)
  <2>1. first \in Seq(All) /\ rest \in Seq(All)
    <3>1. fromGrid \subseteq All /\ added \cup ListedCancels \subseteq All
      OBVIOUS
    <3> HIDE DEF All
    <3> QED BY <1>6, <1>11, <3>1, SeqLarger
  <2> HIDE DEF All
  <2> QED BY <2>1, SeqJoined
<1>16. Actions(plan, new) = first \o rest
  BY <1>1, <1>12
<1> QED BY <1>14, <1>15, <1>16 DEF fromGrid, added

-----------------------------------------------------------------------------
\* A tick adds the planned grid orders to the book, then the take-profits.

LEMMA IsSequence ==
  ASSUME NEW S, NEW n \in Nat, NEW f, f = [i \in 1..n |-> f[i]], \A i \in 1..n : f[i] \in S
  PROVE  f \in Seq(S) /\ Len(f) = n /\ DOMAIN f = 1..n
OBVIOUS

LEMMA JoinedThrice ==
  ASSUME NEW S, NEW q \in Seq(S), NEW r \in Seq(S), NEW m, m = Len(q) + Len(r), NEW n, n = Len(q)
  PROVE  /\ q \o r \in Seq(S) /\ Len(q \o r) = m /\ m \in Nat /\ n \in Nat /\ n <= m
         /\ \A o \in 1..n : o \in 1..m /\ (q \o r)[o] = q[o]
         /\ \A o \in 1..m : o \notin 1..n =>
              o - n \in 1..Len(r) /\ (q \o r)[o] = r[o - n] /\ o \in (n + 1)..m
         /\ \A o \in (n + 1)..m : o \in 1..m /\ o \notin 1..n
OBVIOUS

\* The grid orders a plan places.
GridOrders(places) == [i \in DOMAIN places |-> LadderOrder(places[i][1], places[i][2], FALSE)]
IsGrown(book, places, orders) == book = rollBook \o GridOrders(places) \o orders

Grown(book, size, places, orders) ==
  /\ book \in Seq(LadderOrders) /\ Len(book) = size + Len(orders)
  /\ Len(rollBook) \in Nat /\ Len(places) \in Nat /\ Len(orders) \in Nat
  /\ \A o \in RungIds : o \in 1..Len(book) /\ book[o] = rollBook[o]
  /\ \A o \in 1..Len(book) : o \notin RungIds => book[o].st = "unsent"
  /\ \A o \in 1..Len(book) : o \notin RungIds /\ ~book[o].tp =>
       /\ o - Len(rollBook) \in DOMAIN places /\ o \in (Len(rollBook) + 1)..size
       /\ book[o].side = places[o - Len(rollBook)][1]
       /\ book[o].price = places[o - Len(rollBook)][2]
  /\ \A o \in (size + 1)..Len(book) : book[o].tp

LEMMA BookGrows ==
  ASSUME LadderTypeOK, NEW places \in Seq({"BUY", "SELL"} \X Int), NEW orders \in Seq(TpOrders),
         NEW size, size = Len(rollBook) + Len(places),
         NEW book, IsGrown(book, places, orders)
  PROVE  Grown(book, size, places, orders)
<1> DEFINE fromGrid == [i \in DOMAIN places |-> LadderOrder(places[i][1], places[i][2], FALSE)]
           both == rollBook \o fromGrid
<1>1. /\ Len(places) \in Nat /\ DOMAIN places = 1..Len(places)
      /\ \A i \in 1..Len(places) : places[i][1] \in {"BUY", "SELL"} /\ places[i][2] \in Int
  OBVIOUS
<1>2. /\ fromGrid \in Seq(LadderOrders) /\ Len(fromGrid) = Len(places)
      /\ \A i \in 1..Len(places) :
           fromGrid[i].tp = FALSE /\ fromGrid[i].st = "unsent"
             /\ fromGrid[i].side = places[i][1] /\ fromGrid[i].price = places[i][2]
  <2>1. \A i \in 1..Len(places) : fromGrid[i] = LadderOrder(places[i][1], places[i][2], FALSE)
    BY <1>1
  <2>2. fromGrid = [i \in 1..Len(places) |-> fromGrid[i]]
    BY <1>1
  <2> HIDE DEF fromGrid
  <2>3. ASSUME NEW i \in 1..Len(places)
        PROVE  /\ fromGrid[i] \in LadderOrders /\ fromGrid[i].tp = FALSE /\ fromGrid[i].st = "unsent"
               /\ fromGrid[i].side = places[i][1] /\ fromGrid[i].price = places[i][2]
    <3>1. PICK side, price : side = places[i][1] /\ price = places[i][2]
      OBVIOUS
    <3>2. side \in {"BUY", "SELL"} /\ price \in Int /\ FALSE \in BOOLEAN
      BY <3>1, <1>1
    <3>3. fromGrid[i] = LadderOrder(side, price, FALSE)
      BY <3>1, <2>1
    <3>4. PICK n : n = LadderOrder(side, price, FALSE)
      OBVIOUS
    <3>5. /\ n \in LadderOrders /\ n.tp = FALSE /\ n.st = "unsent" /\ n.side = side /\ n.price = price
      BY <3>2, <3>4 DEF LadderOrder, LadderOrders, OrderStates
    <3>6. fromGrid[i] = n
      BY <3>3, <3>4
    <3> QED BY <3>1, <3>5, <3>6, Zenon
  <2> HIDE DEF LadderOrders
  <2>4. fromGrid \in Seq(LadderOrders) /\ Len(fromGrid) = Len(places)
    <3>1. PICK n, f : n = Len(places) /\ f = fromGrid
      OBVIOUS
    <3>2. n \in Nat /\ f = [i \in 1..n |-> f[i]] /\ \A i \in 1..n : f[i] \in LadderOrders
      <4>1. n \in Nat
        BY <3>1, <1>1
      <4>2. f = [i \in 1..n |-> f[i]]
        BY <3>1, <2>2, Zenon
      <4>3. \A i \in 1..n : f[i] \in LadderOrders
        BY <3>1, <2>3, Zenon
      <4> QED BY <4>1, <4>2, <4>3
    <3>3. f \in Seq(LadderOrders) /\ Len(f) = n
      BY <3>2, IsSequence
    <3> QED BY <3>1, <3>3, Zenon
  <2> QED BY <2>3, <2>4
<1>3. book = both \o orders
  BY DEF GridOrders, IsGrown
<1>4. orders \in Seq(LadderOrders) /\ Len(orders) \in Nat
      /\ \A i \in 1..Len(orders) : orders[i].tp = TRUE /\ orders[i].st = "unsent"
  <2>1. TpOrders \subseteq LadderOrders /\ \A n \in TpOrders : n.tp = TRUE /\ n.st = "unsent"
    BY DEF TpOrders, LadderOrders
  <2> HIDE DEF TpOrders, LadderOrders
  <2>2. orders \in Seq(LadderOrders)
    BY <2>1, SeqLarger
  <2> QED BY <2>1, <2>2
<1>5. rollBook \in Seq(LadderOrders) /\ Len(rollBook) \in Nat
  BY DEF LadderTypeOK
<1> HIDE DEF LadderOrders, TpOrders, fromGrid
<1>6. /\ both \in Seq(LadderOrders) /\ Len(both) = size
      /\ \A o \in 1..Len(rollBook) : o \in 1..size /\ both[o] = rollBook[o]
      /\ \A o \in 1..size : o \notin 1..Len(rollBook) =>
           o - Len(rollBook) \in 1..Len(places) /\ both[o] = fromGrid[o - Len(rollBook)]
           /\ o \in (Len(rollBook) + 1)..size
  <2>1. size = Len(rollBook) + Len(fromGrid)
    BY <1>2
  <2> QED BY <1>2, <1>5, <2>1, JoinedThrice
<1> HIDE DEF both
<1>7. /\ book \in Seq(LadderOrders) /\ Len(book) = size + Len(orders)
      /\ \A o \in 1..size : o \in 1..Len(book) /\ book[o] = both[o]
      /\ \A o \in 1..Len(book) : o \notin 1..size =>
           o - size \in 1..Len(orders) /\ book[o] = orders[o - size]
      /\ \A o \in (size + 1)..Len(book) : o \in 1..Len(book) /\ o \notin 1..size
  <2>1. size = Len(both) /\ size + Len(orders) = Len(both) + Len(orders)
    BY <1>6
  <2>2. PICK last : last = size + Len(orders)
    OBVIOUS
  <2>3. PICK added : added = orders
    OBVIOUS
  <2>4. added \in Seq(LadderOrders) /\ last = Len(both) + Len(added) /\ book = both \o added
    BY <1>3, <1>4, <2>1, <2>2, <2>3
  <2>5. PICK whole, m : whole = both /\ m = size
    OBVIOUS
  <2>6. whole \in Seq(LadderOrders) /\ book = whole \o added /\ last = Len(whole) + Len(added) /\ m = Len(whole)
    BY <1>6, <2>1, <2>4, <2>5
  <2>7. /\ book \in Seq(LadderOrders) /\ Len(book) = last
        /\ \A o \in 1..m : o \in 1..last /\ book[o] = whole[o]
        /\ \A o \in 1..last : o \notin 1..m => o - m \in 1..Len(added) /\ book[o] = added[o - m]
        /\ \A o \in (m + 1)..last : o \in 1..last /\ o \notin 1..m
    <3>1. /\ whole \o added \in Seq(LadderOrders) /\ Len(whole \o added) = last
          /\ \A o \in 1..m : o \in 1..last /\ (whole \o added)[o] = whole[o]
          /\ \A o \in 1..last : o \notin 1..m => o - m \in 1..Len(added) /\ (whole \o added)[o] = added[o - m]
          /\ \A o \in (m + 1)..last : o \in 1..last /\ o \notin 1..m
      <4>1. whole \in Seq(LadderOrders) /\ added \in Seq(LadderOrders)
            /\ last = Len(whole) + Len(added) /\ m = Len(whole)
        BY <2>4, <2>6
      <4>2. \A q, r \in Seq(LadderOrders) : \A a, b :
              a = Len(q) + Len(r) /\ b = Len(q) =>
                /\ q \o r \in Seq(LadderOrders) /\ Len(q \o r) = a
                /\ \A o \in 1..b : o \in 1..a /\ (q \o r)[o] = q[o]
                /\ \A o \in 1..a : o \notin 1..b => o - b \in 1..Len(r) /\ (q \o r)[o] = r[o - b]
                /\ \A o \in (b + 1)..a : o \in 1..a /\ o \notin 1..b
        BY JoinedThrice, SMTT(30)
      <4>3. \A a, b : a = Len(whole) + Len(added) /\ b = Len(whole) =>
                /\ whole \o added \in Seq(LadderOrders) /\ Len(whole \o added) = a
                /\ \A o \in 1..b : o \in 1..a /\ (whole \o added)[o] = whole[o]
                /\ \A o \in 1..a : o \notin 1..b => o - b \in 1..Len(added) /\ (whole \o added)[o] = added[o - b]
                /\ \A o \in (b + 1)..a : o \in 1..a /\ o \notin 1..b
        BY <4>1, <4>2, Zenon
      <4> HIDE <4>2
      <4> QED BY <4>1, <4>3, Zenon
    <3> QED BY <2>6, <3>1, Zenon
  <2> QED BY <2>2, <2>3, <2>5, <2>7, Zenon
<1>8. \A o \in RungIds : o \in 1..Len(book) /\ book[o] = rollBook[o]
  BY <1>6, <1>7 DEF RungIds
<1>9. ASSUME NEW o \in 1..Len(book), o \notin RungIds
      PROVE  /\ book[o].st = "unsent"
             /\ ~book[o].tp => /\ o - Len(rollBook) \in DOMAIN places /\ o \in (Len(rollBook) + 1)..size
                               /\ book[o].side = places[o - Len(rollBook)][1]
                               /\ book[o].price = places[o - Len(rollBook)][2]
  <2>1. CASE o \in 1..size
    <3>1. o \notin 1..Len(rollBook) /\ book[o] = both[o]
      BY <2>1, <1>7, <1>9 DEF RungIds
    <3>2. o - Len(rollBook) \in 1..Len(places) /\ book[o] = fromGrid[o - Len(rollBook)]
          /\ o \in (Len(rollBook) + 1)..size
      BY <2>1, <3>1, <1>6
    <3> QED BY <3>2, <1>1, <1>2
  <2>2. CASE o \notin 1..size
    <3>1. o - size \in 1..Len(orders) /\ book[o] = orders[o - size]
      BY <2>2, <1>7
    <3>2. book[o].tp = TRUE /\ book[o].st = "unsent"
      BY <3>1, <1>4
    <3> QED BY <3>2
  <2> QED BY <2>1, <2>2
<1>10. \A o \in (size + 1)..Len(book) : book[o].tp
  BY <1>4, <1>7
<1> QED BY <1>1, <1>4, <1>5, <1>7, <1>8, <1>9, <1>10 DEF Grown

\* What a tick dispatches: take-profits tried before, then the tick's own actions.
Retried(cool) ==
  [i \in DOMAIN InOrder(IF cool THEN Again ELSE {}, Len(rollBook)) |->
     [Place(InOrder(IF cool THEN Again ELSE {}, Len(rollBook))[i], "TP_CLOSE") EXCEPT !.do = "retry"]]
RetryActs == {a \in LadderActs : a.do = "retry" /\ a.id \in DOMAIN retries}

LEMMA RetryForms ==
  ASSUME NEW o \in Nat
  PROVE  /\ [Place(o, "TP_CLOSE") EXCEPT !.do = "retry"] \in LadderActs
         /\ [Place(o, "TP_CLOSE") EXCEPT !.do = "retry"].do = "retry"
         /\ [Place(o, "TP_CLOSE") EXCEPT !.do = "retry"].id = o
BY DEF Place, LadderActs

\* Retries come first.
Dispatched(acts, cool, own) == acts = Retried(cool) \o own

LEMMA DispatchForms ==
  ASSUME LadderTypeOK, NEW own \in Seq(LadderActs), NEW S, NEW first \in Nat, NEW size \in Nat,
         EachOnce(own, GridActs(first, size)), NEW cool,
         own \in Seq(S), S \subseteq LadderActs,
         NEW acts, Dispatched(acts, cool, own)
  PROVE  /\ acts \in Seq(LadderActs) /\ EachOnce(acts, GridActs(first, size))
         /\ \A i \in DOMAIN acts : acts[i] \in RetryActs \/ (acts[i] \in S /\ acts[i] \in ToSet(own))
<1> DEFINE again == InOrder(IF cool THEN Again ELSE {}, Len(rollBook))
           pre == [i \in DOMAIN again |-> [Place(again[i], "TP_CLOSE") EXCEPT !.do = "retry"]]
           fromGrid == GridActs(first, size)
<1>1. Len(rollBook) \in Nat
  BY DEF LadderTypeOK
<1>2. again \in Seq((IF cool THEN Again ELSE {}) \cap (1..Len(rollBook)))
  BY <1>1, InOrderForms
<1>3. acts = pre \o own
  BY DEF Retried, Dispatched
<1> HIDE DEF again
<1>4. Len(again) \in Nat /\ DOMAIN again = 1..Len(again)
      /\ \A i \in 1..Len(again) : again[i] \in DOMAIN retries /\ again[i] \in Nat
  BY <1>1, <1>2 DEF Again
<1>5. pre \in Seq(RetryActs)
  <2>1. \A i \in 1..Len(again) : pre[i] = [Place(again[i], "TP_CLOSE") EXCEPT !.do = "retry"]
    BY <1>4
  <2>2. pre = [i \in 1..Len(again) |-> pre[i]]
    BY <1>4
  <2> HIDE DEF pre
  <2>3. ASSUME NEW i \in 1..Len(again) PROVE pre[i] \in RetryActs
    <3>1. PICK o : o = again[i]
      OBVIOUS
    <3>2. o \in Nat /\ o \in DOMAIN retries
      BY <1>4, <3>1
    <3>3. pre[i] = [Place(o, "TP_CLOSE") EXCEPT !.do = "retry"]
      BY <2>1, <3>1
    <3> QED BY <3>2, <3>3, RetryForms DEF RetryActs
  <2> HIDE DEF RetryActs
  <2> QED BY <1>4, <2>2, <2>3, IsSequence
<1> HIDE DEF pre
<1>6. RetryActs \subseteq LadderActs \ fromGrid
  BY DEF RetryActs, GridActs
<1> HIDE DEF fromGrid, RetryActs, LadderActs
<1>7. pre \in Seq(LadderActs \ fromGrid) /\ pre \in Seq(LadderActs)
  BY <1>5, <1>6
<1>8. EachOnce(acts, fromGrid)
  BY <1>3, <1>7, OnceJoined DEF fromGrid
<1>9. acts \in Seq(LadderActs)
  BY <1>3, <1>7, SeqJoined
<1>10. \A i \in DOMAIN acts : acts[i] \in RetryActs \/ (acts[i] \in S /\ acts[i] \in ToSet(own))
  <2>1. \A i \in DOMAIN acts : (i \in 1..Len(pre) /\ acts[i] = pre[i])
                               \/ (i - Len(pre) \in 1..Len(own) /\ acts[i] = own[i - Len(pre)])
    <3>1. /\ Len(pre) \in Nat /\ DOMAIN own = 1..Len(own) /\ DOMAIN acts = 1..(Len(pre) + Len(own))
          /\ \A i \in 1..Len(pre) : acts[i] = pre[i]
          /\ \A i \in 1..(Len(pre) + Len(own)) : i \notin 1..Len(pre) =>
               i - Len(pre) \in 1..Len(own) /\ acts[i] = own[i - Len(pre)]
      <4>1. own \in Seq(LadderActs) /\ pre \in Seq(LadderActs)
        BY <1>7
      <4>2. /\ Len(pre) \in Nat /\ DOMAIN own = 1..Len(own) /\ DOMAIN (pre \o own) = 1..(Len(pre) + Len(own))
            /\ \A i \in 1..Len(pre) : (pre \o own)[i] = pre[i]
            /\ \A i \in 1..(Len(pre) + Len(own)) : i \notin 1..Len(pre) =>
                 i - Len(pre) \in 1..Len(own) /\ (pre \o own)[i] = own[i - Len(pre)]
        <5>1. \A q, r \in Seq(LadderActs) :
                /\ Len(q) \in Nat /\ DOMAIN r = 1..Len(r) /\ DOMAIN (q \o r) = 1..(Len(q) + Len(r))
                /\ \A i \in 1..Len(q) : (q \o r)[i] = q[i]
                /\ \A i \in 1..(Len(q) + Len(r)) : i \notin 1..Len(q) =>
                     i - Len(q) \in 1..Len(r) /\ (q \o r)[i] = r[i - Len(q)]
          BY JoinedIndex
        <5> QED BY <4>1, <5>1, Zenon
      <4> QED BY <1>3, <4>2, Zenon
    <3> QED BY <3>1
  <2>2. \A i \in 1..Len(pre) : pre[i] \in RetryActs
    BY <1>5
  <2>3. \A i \in 1..Len(own) : own[i] \in S /\ own[i] \in ToSet(own)
    BY DEF ToSet
  <2> QED BY <2>1, <2>2, <2>3
<1> QED BY <1>8, <1>9, <1>10 DEF fromGrid

\* What a tick leaves behind: the book grown, the actions of the tick, what the
\* engine waits for, and where the ladder moved.
BookAfter(plan) ==
  /\ rollBook' \in Seq(LadderOrders) /\ Len(rollBook) \in Nat
  /\ \A o \in RungIds : o \in RungIds' /\ rollBook'[o] = rollBook[o]
  /\ \A o \in RungIds' : o \notin RungIds =>
       /\ rollBook'[o].st = "unsent"
       /\ ~rollBook'[o].tp =>
            /\ o - Len(rollBook) \in DOMAIN plan.places /\ o \in (Len(rollBook) + 1)..(Len(rollBook) + Len(plan.places))
            /\ rollBook'[o].side = plan.places[o - Len(rollBook)][1]
            /\ rollBook'[o].price = plan.places[o - Len(rollBook)][2]

ActsAfter(plan, asked) ==
  /\ todo'.acts \in Seq(LadderActs)
  /\ EachOnce(todo'.acts, GridActs(Len(rollBook) + 1, Len(rollBook) + Len(plan.places)))
  /\ \A i \in DOMAIN todo'.acts :
       \/ todo'.acts[i].do = "retry" /\ todo'.acts[i].id \in DOMAIN retries
       \/ /\ todo'.acts[i].do = "place" /\ todo'.acts[i].id \in RungIds' /\ todo'.acts[i].id \notin RungIds
          /\ todo'.acts[i].why = "GRID_FILL" \/ rollBook'[todo'.acts[i].id].tp
       \/ todo'.acts[i].do = "cancel" /\ todo'.acts[i].id \in asked
  /\ asked \subseteq view.orders
  /\ \A o \in DOMAIN retries' : o \in DOMAIN retries

WatchAfter(plan, asked, due) ==
  /\ watch' \in Watches /\ view'.orders = (IF due THEN Resting ELSE view.orders)
  /\ watch'.prev = plan.watch.prev
  /\ watch'.cancels = plan.watch.cancels \cup asked
  /\ watch'.sent = (IF due THEN plan.watch.unsynced ELSE {})
  /\ watch'.unsynced = (IF due THEN {} ELSE plan.watch.unsynced)
  /\ watch'.latch = IF due /\ plan.watch.latch = "unsynced" THEN "synced" ELSE plan.watch.latch
  /\ ladder' \in Ladders /\ ladder'.on = TRUE
  /\ shifted' = IF ladder.on THEN shifted \cup plan.fills ELSE shifted
  /\ hidden' = hidden \cup (Vanished \ plan.fills)

LEMMA Wider ==
  ASSUME NEW f \in Nat, NEW s \in Nat, NEW k \in Nat, f <= s + 1
  PROVE  \A n : n \in f..s \/ n \in (s + 1)..(s + k) => n \in f..(s + k)
OBVIOUS

LEMMA Above ==
  ASSUME NEW l \in Nat, NEW m \in Nat
  PROVE  \A n : n \in (l + 1)..m => n \in 1..m /\ n \notin 1..l
OBVIOUS

LEMMA GrownAfter ==
  ASSUME NEW plan, NEW size, size = Len(rollBook) + Len(plan.places), NEW orders,
         Grown(rollBook', size, plan.places, orders)
  PROVE  /\ BookAfter(plan) /\ Len(rollBook') = size + Len(orders)
         /\ \A o \in (size + 1)..Len(rollBook') : rollBook'[o].tp
<1>1. RungIds' = 1..Len(rollBook')
  BY DEF RungIds
<1>2. /\ rollBook' \in Seq(LadderOrders) /\ Len(rollBook) \in Nat
      /\ \A o \in RungIds : o \in RungIds' /\ rollBook'[o] = rollBook[o]
  BY <1>1 DEF Grown
<1>3. ASSUME NEW o \in RungIds', o \notin RungIds
      PROVE  /\ rollBook'[o].st = "unsent"
             /\ ~rollBook'[o].tp =>
                  /\ o - Len(rollBook) \in DOMAIN plan.places
                  /\ o \in (Len(rollBook) + 1)..(Len(rollBook) + Len(plan.places))
                  /\ rollBook'[o].side = plan.places[o - Len(rollBook)][1]
                  /\ rollBook'[o].price = plan.places[o - Len(rollBook)][2]
  BY <1>1, <1>3 DEF Grown
<1>4. BookAfter(plan)
  BY <1>2, <1>3 DEF BookAfter
<1> QED BY <1>4 DEF Grown

LEMMA TickBook ==
  ASSUME LadderTypeOK, NEW paused, NEW plan, PlanIsSound(plan, paused), NEW new, new.orders \in Seq(TpOrders),
         rollBook' = rollBook \o GridOrders(plan.places) \o new.orders
  PROVE  /\ BookAfter(plan) /\ Len(rollBook') = Len(rollBook) + Len(plan.places) + Len(new.orders)
         /\ \A o \in (Len(rollBook) + Len(plan.places) + 1)..Len(rollBook') : rollBook'[o].tp
<1>1. PICK book, size : book = rollBook' /\ size = Len(rollBook) + Len(plan.places)
  OBVIOUS
<1>2. PICK places, orders : places = plan.places /\ orders = new.orders
  OBVIOUS
<1>3. places \in Seq({"BUY", "SELL"} \X Int) /\ orders \in Seq(TpOrders)
  BY <1>2 DEF PlanIsSound
<1>4. IsGrown(book, plan.places, new.orders)
  BY <1>1 DEF IsGrown
<1>5. size = Len(rollBook) + Len(places) /\ IsGrown(book, places, orders)
  BY <1>1, <1>2, <1>4, Zenon
<1>6. Grown(book, size, places, orders)
  BY <1>3, <1>5, BookGrows
<1>7. Grown(rollBook', size, plan.places, orders)
  BY <1>1, <1>2, <1>6, Zenon
<1>8. /\ BookAfter(plan) /\ Len(rollBook') = size + Len(orders)
      /\ \A o \in (size + 1)..Len(rollBook') : rollBook'[o].tp
  BY <1>1, <1>7, GrownAfter, Zenon
<1> QED BY <1>1, <1>2, <1>8, Zenon

LEMMA TickActs ==
  ASSUME LadderTypeOK, NEW paused, NEW cool, NEW plan, PlanIsSound(plan, paused), NEW new,
         new.orders \in Seq(TpOrders),
         new.acts \in Seq(GivenActs(Len(rollBook) + Len(plan.places) + 1,
                                    Len(rollBook) + Len(plan.places) + 1 + Len(new.orders))),
         Len(rollBook') = Len(rollBook) + Len(plan.places) + Len(new.orders),
         \A o \in (Len(rollBook) + Len(plan.places) + 1)..Len(rollBook') : rollBook'[o].tp,
         NEW own, own = Actions(plan, new),
         todo'.acts = Retried(cool) \o own,
         retries' = [o \in Again |-> retries[o]]
  PROVE  ActsAfter(plan, Cancels(own))
<1>1. PICK size, first : size = Len(rollBook) + Len(plan.places) /\ first = Len(rollBook) + 1
  OBVIOUS
<1>2. Len(rollBook) \in Nat /\ Len(plan.places) \in Nat /\ Len(new.orders) \in Nat /\ size \in Nat /\ first \in Nat
  <2>1. Len(rollBook) \in Nat /\ Len(plan.places) \in Nat
    BY DEF LadderTypeOK, PlanIsSound
  <2>2. Len(new.orders) \in Nat
    OBVIOUS
  <2> QED BY <1>1, <2>1, <2>2
<1> DEFINE fromGrid == GridActs(first, size)
           added == TpActs(size + 1, size + Len(new.orders))
           All == fromGrid \cup added \cup ListedCancels
<1>3. own \in Seq(All) /\ EachOnce(own, fromGrid)
  <2>1. new.acts \in Seq(GivenActs(size + 1, size + 1 + Len(new.orders)))
    BY <1>1
  <2> QED BY <1>1, <1>2, <2>1, ActionsForms
<1>4. All \subseteq LadderActs
  BY DEF GridActs, TpActs, ListedCancels
<1>5. own \in Seq(LadderActs)
  BY <1>3, <1>4, SeqLarger
<1>6. \A a \in All :
        \/ /\ a.do = "place" /\ a.id \in first..(size + Len(new.orders))
           /\ a.why = "GRID_FILL" \/ a.id \in (size + 1)..(size + Len(new.orders))
        \/ a.do = "cancel" /\ a.id \in view.orders
  <2>0. first <= size + 1
    BY <1>1, <1>2
  <2>1. \A a \in fromGrid : a.do = "place" /\ a.id \in first..(size + Len(new.orders)) /\ a.why = "GRID_FILL"
    BY <1>2, <2>0, Wider DEF GridActs
  <2>2. \A a \in added : /\ a.do = "place" /\ a.id \in first..(size + Len(new.orders))
                         /\ a.id \in (size + 1)..(size + Len(new.orders))
    BY <1>2, <2>0, Wider DEF TpActs
  <2>3. \A a \in ListedCancels : a.do = "cancel" /\ a.id \in view.orders
    BY DEF ListedCancels
  <2> HIDE DEF fromGrid, added
  <2> QED BY <2>1, <2>2, <2>3
<1>7. PICK acts : acts = todo'.acts
  OBVIOUS
<1> HIDE DEF All, fromGrid
<1>8. /\ acts \in Seq(LadderActs) /\ EachOnce(acts, fromGrid)
      /\ \A i \in DOMAIN acts : acts[i] \in RetryActs \/ (acts[i] \in All /\ acts[i] \in ToSet(own))
  <2>1. Dispatched(acts, cool, own)
    BY <1>7 DEF Dispatched
  <2>2. EachOnce(own, GridActs(first, size))
    BY <1>3 DEF fromGrid
  <2>3. /\ acts \in Seq(LadderActs) /\ EachOnce(acts, GridActs(first, size))
        /\ \A i \in DOMAIN acts : acts[i] \in RetryActs \/ (acts[i] \in All /\ acts[i] \in ToSet(own))
    BY <1>2, <1>3, <1>4, <1>5, <2>1, <2>2, DispatchForms
  <2> QED BY <2>3 DEF fromGrid
<1>9. Cancels(own) \subseteq view.orders
  <2>1. ASSUME NEW o \in Cancels(own) PROVE o \in view.orders
    <3>1. PICK i \in DOMAIN own : own[i].do = "cancel" /\ own[i].id = o
      BY DEF Cancels, ToSet
    <3>2. own[i] \in All
      BY <1>3
    <3> QED BY <3>1, <3>2, <1>6
  <2> QED BY <2>1
<1>10. ASSUME NEW i \in DOMAIN acts
       PROVE  \/ acts[i].do = "retry" /\ acts[i].id \in DOMAIN retries
              \/ /\ acts[i].do = "place" /\ acts[i].id \in RungIds' /\ acts[i].id \notin RungIds
                 /\ acts[i].why = "GRID_FILL" \/ rollBook'[acts[i].id].tp
              \/ acts[i].do = "cancel" /\ acts[i].id \in Cancels(own)
  <2>1. PICK a : a = acts[i]
    OBVIOUS
  <2>2. CASE a \in RetryActs
    BY <2>1, <2>2 DEF RetryActs
  <2>3. CASE /\ a.do = "place" /\ a.id \in first..(size + Len(new.orders))
             /\ a.why = "GRID_FILL" \/ a.id \in (size + 1)..(size + Len(new.orders))
    <3>1. first..(size + Len(new.orders)) = (Len(rollBook) + 1)..Len(rollBook')
      BY <1>1
    <3>2. \A o \in (Len(rollBook) + 1)..Len(rollBook') : o \in 1..Len(rollBook') /\ o \notin 1..Len(rollBook)
      <4>1. PICK l, m : l = Len(rollBook) /\ m = Len(rollBook')
        OBVIOUS
      <4>2. PICK p, k : p = Len(plan.places) /\ k = Len(new.orders)
        OBVIOUS
      <4>3. p \in Nat /\ k \in Nat /\ l \in Nat
        BY <1>2, <4>1, <4>2
      <4>4. m = l + p + k
        BY <4>1, <4>2
      <4>5. m \in Nat
        BY <4>3, <4>4
      <4> QED BY <4>1, <4>3, <4>5, Above, Zenon
    <3>3. a.id \in RungIds' /\ a.id \notin RungIds
      BY <2>3, <3>1, <3>2 DEF RungIds
    <3>4. a.id \in (size + 1)..(size + Len(new.orders)) => rollBook'[a.id].tp
      <4>1. (size + 1)..(size + Len(new.orders)) = (Len(rollBook) + Len(plan.places) + 1)..Len(rollBook')
        BY <1>1
      <4> QED BY <4>1
    <3> QED BY <2>1, <2>3, <3>3, <3>4
  <2>4. CASE a.do = "cancel" /\ a \in ToSet(own)
    BY <2>1, <2>4 DEF Cancels
  <2> QED BY <1>6, <1>8, <2>1, <2>2, <2>3, <2>4
<1>11. \A o \in DOMAIN retries' : o \in DOMAIN retries
  BY DEF Again
<1>12. EachOnce(acts, GridActs(Len(rollBook) + 1, Len(rollBook) + Len(plan.places)))
  BY <1>1, <1>8 DEF fromGrid
<1> QED BY <1>7, <1>8, <1>9, <1>10, <1>11, <1>12 DEF ActsAfter

\* The engine's record once the actions are planned, and after a sync.
Asking(w, asked) == [w EXCEPT !.cancels = @ \cup asked]
AfterSync(w, due) ==
  IF due THEN [w EXCEPT !.sent = @ \cup w.unsynced, !.unsynced = {},
                        !.latch = IF @ = "unsynced" THEN "synced" ELSE @,
                        !.failed = @ \cap Resting, !.dispatched = {}]
         ELSE w

LEMMA TickWatch ==
  ASSUME LadderTypeOK, NEW paused, NEW plan, PlanIsSound(plan, paused), NEW asked, asked \subseteq view.orders,
         NEW due \in BOOLEAN, watch' = AfterSync(Asking(plan.watch, asked), due)
  PROVE  /\ watch' \in Watches
         /\ watch'.prev = plan.watch.prev
         /\ watch'.cancels = plan.watch.cancels \cup asked
         /\ watch'.sent = (IF due THEN plan.watch.unsynced ELSE {})
         /\ watch'.unsynced = (IF due THEN {} ELSE plan.watch.unsynced)
         /\ watch'.latch = IF due /\ plan.watch.latch = "unsynced" THEN "synced" ELSE plan.watch.latch
<1>1. PICK p, w : p = plan.watch /\ w = Asking(p, asked)
  OBVIOUS
<1>0. watch' = AfterSync(w, due)
  BY <1>1
<1>2. p \in Watches /\ p.sent = {} /\ asked \subseteq Nat
  BY <1>1 DEF PlanIsSound, LadderTypeOK, RungIds
<1>3. w = [p EXCEPT !.cancels = p.cancels \cup asked]
  BY <1>1 DEF Asking
<1>4. /\ w \in Watches /\ w.prev = p.prev /\ w.cancels = p.cancels \cup asked /\ w.sent = p.sent
      /\ w.unsynced = p.unsynced /\ w.latch = p.latch
  BY <1>2, <1>3 DEF Watches
<1>5. CASE ~due
  BY <1>0, <1>1, <1>2, <1>4, <1>5 DEF AfterSync
<1>6. CASE due
  <2> DEFINE kept == w.failed \cap Resting
             latch == IF w.latch = "unsynced" THEN "synced" ELSE w.latch
             expected == w.sent \cup w.unsynced
  <2>1. watch' = [w EXCEPT !.sent = expected, !.unsynced = {}, !.latch = latch, !.failed = kept, !.dispatched = {}]
    BY <1>0, <1>6 DEF AfterSync
  <2>2. kept \subseteq Nat /\ latch \in {"none", "unsynced", "synced"} /\ expected \subseteq Nat /\ expected = p.unsynced
    BY <1>2, <1>4 DEF Watches
  <2> DEFINE Shape(sents, uns, latches, fails, gone) ==
               [prev : {w.prev}, cancels : {w.cancels}, sent : sents, unsynced : uns,
                latch : latches, failed : fails, dispatched : gone]
  <2>3. PICK none : none = {}
    OBVIOUS
  <2>4. watch' = [w EXCEPT !.sent = expected, !.unsynced = none, !.latch = latch, !.failed = kept, !.dispatched = none]
    BY <2>1, <2>3
  <2> HIDE DEF kept, expected, latch
  <2>5. w \in Shape({w.sent}, {w.unsynced}, {w.latch}, {w.failed}, {w.dispatched})
    BY <1>4 DEF Watches
  <2>6. watch' \in Shape({expected}, {none}, {latch}, {kept}, {none})
    BY <1>4, <2>4 DEF Watches
  <2>7. w.prev \subseteq Nat /\ w.cancels \subseteq Nat /\ none \subseteq Nat
    BY <1>4, <2>3 DEF Watches
  <2>8. watch' \in Watches /\ watch'.prev = w.prev /\ watch'.cancels = w.cancels /\ watch'.sent = expected
        /\ watch'.unsynced = none /\ watch'.latch = latch
    BY <2>2, <2>6, <2>7 DEF Watches
  <2> QED BY <1>1, <1>4, <1>6, <2>2, <2>3, <2>8 DEF latch
<1> QED BY <1>5, <1>6

LEMMA TickOutcome ==
  ASSUME RLAssumption, LadderTypeOK, NEW mid \in Mids, NEW active \in BOOLEAN, NEW paused \in BOOLEAN,
         NEW cool \in BOOLEAN, NEW due \in BOOLEAN, NEW plan, plan = PlanOf(mid, active, paused),
         NEW new, new = CycleOf(plan, paused, cool), NEW own, own = Actions(plan, new),
         Tick(plan, new, own, cool, due)
  PROVE  /\ PlanIsSound(plan, paused) /\ BookAfter(plan)
         /\ ActsAfter(plan, Cancels(own)) /\ WatchAfter(plan, Cancels(own), due)
<1>1. PlanIsSound(plan, paused)
  BY PlanForms
<1>2. Len(plan.places) \in Nat
  BY <1>1 DEF PlanIsSound
<1>3. /\ new.orders \in Seq(TpOrders)
      /\ new.acts \in Seq(GivenActs(Len(rollBook) + Len(plan.places) + 1,
                                    Len(rollBook) + Len(plan.places) + 1 + Len(new.orders)))
  BY <1>2, CycleForms
<1>4. /\ rollBook' = rollBook \o GridOrders(plan.places) \o new.orders
      /\ todo'.acts = Retried(cool) \o own
      /\ retries' = [o \in Again |-> retries[o]]
  BY DEF Tick, GridOrders, Retried
<1>5. /\ BookAfter(plan) /\ Len(rollBook') = Len(rollBook) + Len(plan.places) + Len(new.orders)
      /\ \A o \in (Len(rollBook) + Len(plan.places) + 1)..Len(rollBook') : rollBook'[o].tp
  BY <1>1, <1>3, <1>4, TickBook
<1>6. ActsAfter(plan, Cancels(own))
  BY <1>1, <1>3, <1>4, <1>5, TickActs
<1>7. PICK asked : asked = Cancels(own)
  OBVIOUS
<1>9. watch' = AfterSync(Asking(plan.watch, asked), due)
  BY <1>7 DEF Tick, AfterSync, Asking
<1>10. asked \subseteq view.orders
  BY <1>6, <1>7 DEF ActsAfter
<1>11. /\ watch' \in Watches
       /\ watch'.prev = plan.watch.prev
       /\ watch'.cancels = plan.watch.cancels \cup asked
       /\ watch'.sent = (IF due THEN plan.watch.unsynced ELSE {})
       /\ watch'.unsynced = (IF due THEN {} ELSE plan.watch.unsynced)
       /\ watch'.latch = IF due /\ plan.watch.latch = "unsynced" THEN "synced" ELSE plan.watch.latch
  BY <1>1, <1>9, <1>10, TickWatch
<1>12. /\ view'.orders = (IF due THEN Resting ELSE view.orders)
       /\ ladder' = plan.ladder
       /\ shifted' = IF ladder.on THEN shifted \cup plan.fills ELSE shifted
       /\ hidden' = hidden \cup (Vanished \ plan.fills)
  BY DEF Tick
<1>13. ladder' \in Ladders /\ ladder'.on = TRUE
  BY <1>1, <1>12 DEF PlanIsSound
<1>14. WatchAfter(plan, asked, due)
  BY <1>11, <1>12, <1>13 DEF WatchAfter
<1> QED BY <1>1, <1>5, <1>6, <1>7, <1>14

-----------------------------------------------------------------------------
\* A tick keeps the invariant, part by part.

LEMMA TickKeepsTypes ==
  ASSUME LadderTypeOK, ActsAreDistinct, NEW paused, NEW plan, NEW asked, NEW due \in BOOLEAN,
         PlanIsSound(plan, paused), BookAfter(plan), ActsAfter(plan, asked), WatchAfter(plan, asked, due),
         astray' \in BOOLEAN
  PROVE  LadderTypeOK' /\ ActsAreDistinct'
<1>1. RungIds \subseteq RungIds' /\ view.orders \subseteq RungIds /\ Resting \subseteq RungIds
  BY DEF BookAfter, LadderTypeOK, Resting
<1>2. view'.orders \subseteq RungIds'
  BY <1>1 DEF WatchAfter
<1>3. watch'.prev \subseteq RungIds' /\ watch'.sent \subseteq RungIds' /\ watch'.unsynced \subseteq RungIds'
  <2>1. plan.watch.prev \subseteq RungIds /\ plan.watch.unsynced \subseteq RungIds
    BY <1>1 DEF PlanIsSound, LadderTypeOK, Grid
  <2> QED BY <1>1, <2>1 DEF WatchAfter
<1>4. shifted' \subseteq RungIds'
  <2>1. shifted \subseteq RungIds /\ plan.fills \subseteq RungIds
    BY DEF LadderTypeOK, PlanIsSound
  <2> QED BY <1>1, <2>1 DEF WatchAfter
<1>5. LadderTypeOK'
  <2>1. rollBook' \in Seq(LadderOrders) /\ todo'.acts \in Seq(LadderActs) /\ watch' \in Watches /\ ladder' \in Ladders
    BY DEF BookAfter, ActsAfter, WatchAfter
  <2> QED BY <1>2, <1>3, <1>4, <2>1 DEF LadderTypeOK
<1>6. ASSUME NEW i \in DOMAIN todo'.acts
      PROVE  /\ todo'.acts[i].id \in RungIds'
             /\ todo'.acts[i].do = "retry" => rollBook'[todo'.acts[i].id].tp
             /\ todo'.acts[i].do = "place" /\ todo'.acts[i].why = "TP_CLOSE" => rollBook'[todo'.acts[i].id].tp
             /\ GridPlace(i)' => todo'.acts[i].id \notin RungIds /\ todo'.acts[i].why = "GRID_FILL"
  <2>1. PICK a : a = todo'.acts[i]
    OBVIOUS
  <2>2. \/ a.do = "retry" /\ a.id \in DOMAIN retries
        \/ /\ a.do = "place" /\ a.id \in RungIds' /\ a.id \notin RungIds
           /\ a.why = "GRID_FILL" \/ rollBook'[a.id].tp
        \/ a.do = "cancel" /\ a.id \in asked
    BY <2>1 DEF ActsAfter
  <2>3. GridPlace(i)' => a.do = "place" /\ ~rollBook'[a.id].tp
    BY <2>1 DEF GridPlace
  <2>4. CASE a.do = "retry" /\ a.id \in DOMAIN retries
    <3>1. a.id \in RungIds /\ rollBook[a.id].tp
      BY <2>4 DEF ActsAreDistinct
    <3>2. a.id \in RungIds' /\ rollBook'[a.id].tp
      BY <3>1 DEF BookAfter
    <3> QED BY <2>1, <2>3, <2>4, <3>2
  <2>5. CASE /\ a.do = "place" /\ a.id \in RungIds' /\ a.id \notin RungIds
             /\ a.why = "GRID_FILL" \/ rollBook'[a.id].tp
    BY <2>1, <2>3, <2>5
  <2>6. CASE a.do = "cancel" /\ a.id \in asked
    <3>1. a.id \in RungIds'
      BY <1>1, <2>6 DEF ActsAfter
    <3> QED BY <2>1, <2>3, <2>6, <3>1
  <2> QED BY <2>2, <2>4, <2>5, <2>6
<1>7. ASSUME NEW i \in DOMAIN todo'.acts, GridPlace(i)'
      PROVE  /\ todo'.acts[i].do = "place" /\ ~rollBook'[todo'.acts[i].id].tp
             /\ todo'.acts[i] \in GridActs(Len(rollBook) + 1, Len(rollBook) + Len(plan.places))
             /\ rollBook'[todo'.acts[i].id].st = "unsent"
  <2>1. PICK a : a = todo'.acts[i]
    OBVIOUS
  <2>2. /\ a.do = "place" /\ ~rollBook'[a.id].tp /\ a.id \in RungIds' /\ a.id \notin RungIds
        /\ a.why = "GRID_FILL"
    BY <1>6, <1>7, <2>1 DEF GridPlace
  <2>3. rollBook'[a.id].st = "unsent" /\ a.id \in (Len(rollBook) + 1)..(Len(rollBook) + Len(plan.places))
    BY <2>2 DEF BookAfter
  <2>4. a \in LadderActs
    BY <2>1 DEF ActsAfter
  <2> QED BY <2>1, <2>2, <2>3, <2>4 DEF GridActs
<1>8. ASSUME NEW i \in DOMAIN todo'.acts, NEW j \in DOMAIN todo'.acts, GridPlace(i)', GridPlace(j)',
             todo'.acts[i].id = todo'.acts[j].id
      PROVE  i = j
  <2>1. PICK q, fromGrid : q = todo'.acts /\ fromGrid = GridActs(Len(rollBook) + 1, Len(rollBook) + Len(plan.places))
    OBVIOUS
  <2>2. EachOnce(q, fromGrid)
    BY <2>1 DEF ActsAfter
  <2>3. q[i] \in fromGrid /\ q[j] \in fromGrid
    BY <1>7, <1>8, <2>1
  <2> QED BY <1>8, <2>1, <2>2, <2>3 DEF EachOnce
<1>9. \A o \in DOMAIN retries' : o \in RungIds' /\ rollBook'[o].tp
  BY DEF ActsAfter, ActsAreDistinct, BookAfter
<1>10. ladder'.on
  BY DEF WatchAfter
<1>11. ActsAreDistinct'
  BY <1>6, <1>7, <1>8, <1>9, <1>10 DEF ActsAreDistinct
<1> QED BY <1>5, <1>11

\* The facts about a tick that the parts of the invariant below rest on, when
\* nothing odd has happened.
CalmTick(plan, asked, due) ==
  /\ PlanIsSound(plan, FALSE) /\ BookAfter(plan) /\ ActsAfter(plan, asked) /\ WatchAfter(plan, asked, due)
  /\ due => plan.places = <<>>
  /\ LadderTypeOK /\ ActsAreDistinct /\ CancelsAreRegistered /\ GoneAreFilled /\ RestingAreKnown
  /\ LevelsAreDistinct

LEMMA CalmBook ==
  ASSUME NEW plan, NEW asked, NEW due \in BOOLEAN, CalmTick(plan, asked, due)
  PROVE  /\ \A o \in RungIds : o \in RungIds' /\ rollBook'[o] = rollBook[o] /\ rollBook[o].st \in OrderStates
         /\ \A o \in RungIds' : o \notin RungIds => rollBook'[o].st = "unsent"
         /\ view.orders \subseteq RungIds /\ Resting \subseteq RungIds
         /\ watch.unsynced \subseteq RungIds /\ plan.watch.unsynced \subseteq watch.unsynced
         /\ watch'.prev = Grid(view.orders) /\ asked \subseteq view.orders
         /\ \A o \in view.orders : o \in watch.cancels => o \in watch'.cancels
         /\ asked \subseteq watch'.cancels
         /\ due => view'.orders = Resting /\ watch'.sent = plan.watch.unsynced /\ watch'.unsynced = {}
         /\ ~due => view'.orders = view.orders /\ watch'.sent = {} /\ watch'.unsynced = plan.watch.unsynced
<1> USE DEF CalmTick
<1>1. \A o \in RungIds : o \in RungIds' /\ rollBook'[o] = rollBook[o] /\ rollBook[o].st \in OrderStates
  BY RungForms DEF BookAfter
<1>2. \A o \in RungIds' : o \notin RungIds => rollBook'[o].st = "unsent"
  BY DEF BookAfter
<1>3. view.orders \subseteq RungIds /\ Resting \subseteq RungIds /\ watch.unsynced \subseteq RungIds
      /\ plan.watch.unsynced \subseteq watch.unsynced
  BY DEF LadderTypeOK, Resting, PlanIsSound
<1>4. watch'.prev = Grid(view.orders) /\ asked \subseteq view.orders /\ asked \subseteq watch'.cancels
  BY DEF PlanIsSound, WatchAfter, ActsAfter
<1>5. \A o \in view.orders : o \in watch.cancels => o \in watch'.cancels
  BY DEF PlanIsSound, WatchAfter, Vanished
<1>6. /\ due => view'.orders = Resting /\ watch'.sent = plan.watch.unsynced /\ watch'.unsynced = {}
      /\ ~due => view'.orders = view.orders /\ watch'.sent = {} /\ watch'.unsynced = plan.watch.unsynced
  BY DEF WatchAfter
<1> QED BY <1>1, <1>2, <1>3, <1>4, <1>5, <1>6

LEMMA CalmTickRegisters ==
  ASSUME NEW plan, NEW asked, NEW due \in BOOLEAN, CalmTick(plan, asked, due)
  PROVE  CancelsAreRegistered'
<1>1. ASSUME NEW o \in view.orders, ~rollBook[o].tp
      PROVE  /\ o \in RungIds /\ rollBook[o].st # "unsent" /\ o \notin watch.unsynced
             /\ rollBook[o].st = "cancelled" => o \in watch'.cancels
  <2>1. o \in Grid(view.orders) /\ o \in RungIds
    BY <1>1, CalmBook DEF Grid
  <2> QED BY <1>1, <2>1, CalmBook DEF CalmTick, CancelsAreRegistered
<1>2. ASSUME NEW i \in DOMAIN todo'.acts, todo'.acts[i].do = "cancel", ~rollBook'[todo'.acts[i].id].tp
      PROVE  /\ todo'.acts[i].id \in watch'.cancels /\ todo'.acts[i].id \notin watch'.sent \cup watch'.unsynced
             /\ rollBook'[todo'.acts[i].id].st # "unsent"
  <2>1. PICK o : o = todo'.acts[i].id
    OBVIOUS
  <2>2. o \in asked /\ ~rollBook'[o].tp
    BY <1>2, <2>1 DEF CalmTick, ActsAfter
  <2>3. o \in view.orders /\ o \in RungIds /\ rollBook'[o] = rollBook[o] /\ o \in watch'.cancels
    BY <2>2, CalmBook
  <2>4. o \notin watch'.sent \cup watch'.unsynced /\ rollBook'[o].st # "unsent"
    BY <1>1, <2>2, <2>3, CalmBook
  <2> QED BY <2>1, <2>3, <2>4
<1>3. ASSUME NEW o \in view'.orders, ~rollBook'[o].tp
      PROVE  /\ rollBook'[o].st # "unsent" /\ o \notin watch'.unsynced
             /\ rollBook'[o].st = "cancelled" => o \in watch'.cancels
  <2>1. CASE due
    <3>1. o \in Resting /\ o \in RungIds /\ rollBook'[o] = rollBook[o] /\ o \notin watch'.unsynced
      BY <1>3, <2>1, CalmBook
    <3> QED BY <3>1 DEF Resting
  <2>2. CASE ~due
    <3>1. o \in view.orders /\ o \in RungIds /\ rollBook'[o] = rollBook[o] /\ watch'.unsynced \subseteq watch.unsynced
      BY <1>3, <2>2, CalmBook
    <3> QED BY <1>1, <1>3, <3>1
  <2> QED BY <2>1, <2>2
<1> QED BY <1>2, <1>3 DEF CancelsAreRegistered, Grid

LEMMA CalmTickFills ==
  ASSUME NEW plan, NEW asked, NEW due \in BOOLEAN, CalmTick(plan, asked, due)
  PROVE  GoneAreFilled'
<1>1. ASSUME NEW o \in watch'.prev
      PROVE  /\ o \in RungIds' /\ ~rollBook'[o].tp
             /\ o \in view'.orders \cup watch'.cancels \/ rollBook'[o].st = "filled"
  <2>1. o \in Grid(view.orders) /\ o \in view.orders /\ o \in RungIds /\ ~rollBook[o].tp
    BY <1>1, CalmBook DEF Grid
  <2>2. o \in RungIds' /\ rollBook'[o] = rollBook[o] /\ rollBook[o].st \in OrderStates
    BY <2>1, CalmBook
  <2>3. rollBook[o].st # "unsent" /\ (rollBook[o].st = "cancelled" => o \in watch'.cancels)
    BY <2>1, CalmBook DEF CalmTick, CancelsAreRegistered
  <2>4. CASE due
    <3>1. rollBook[o].st = "resting" => o \in view'.orders
      BY <2>1, <2>4, CalmBook DEF Resting
    <3> QED BY <2>1, <2>2, <2>3, <3>1 DEF OrderStates
  <2>5. CASE ~due
    BY <2>1, <2>2, <2>5, CalmBook
  <2> QED BY <2>4, <2>5
<1>2. ASSUME NEW o \in watch.unsynced
      PROVE  /\ o \in RungIds /\ o \in RungIds' /\ rollBook'[o] = rollBook[o]
             /\ rollBook[o].tp \/ rollBook[o].st \in {"resting", "filled"}
  BY CalmBook DEF CalmTick, GoneAreFilled
<1>3. ASSUME NEW o \in watch'.sent
      PROVE  o \in RungIds' /\ (rollBook'[o].tp \/ o \in view'.orders \/ rollBook'[o].st = "filled")
  <2>1. due /\ o \in watch.unsynced /\ view'.orders = Resting
    BY <1>3, CalmBook
  <2> QED BY <1>2, <2>1 DEF Resting
<1>4. ASSUME NEW o \in watch'.unsynced
      PROVE  o \in RungIds' /\ (rollBook'[o].tp \/ rollBook'[o].st \in {"resting", "filled"})
  <2>1. o \in watch.unsynced
    BY <1>4, CalmBook
  <2> QED BY <1>2, <2>1
<1>5. ASSUME NEW o \in shifted', ~rollBook'[o].tp
      PROVE  rollBook'[o].st = "filled"
  <2>1. o \in shifted \cup GridFills /\ o \in RungIds
    BY <1>5 DEF CalmTick, WatchAfter, PlanIsSound, LadderTypeOK
  <2>2. rollBook'[o] = rollBook[o] /\ ~rollBook[o].tp
    BY <1>5, <2>1, CalmBook
  <2>3. CASE o \in shifted
    BY <2>2, <2>3 DEF CalmTick, GoneAreFilled, Grid
  <2>4. CASE o \in watch.sent \ view.orders
    BY <2>2, <2>4 DEF CalmTick, GoneAreFilled
  <2>5. CASE o \in Vanished \ watch.cancels
    BY <2>2, <2>5 DEF CalmTick, GoneAreFilled, Vanished
  <2> QED BY <2>1, <2>3, <2>4, <2>5 DEF GridFills
<1> QED BY <1>1, <1>3, <1>4, <1>5 DEF GoneAreFilled, Grid

LEMMA CalmTickKnows ==
  ASSUME NEW plan, NEW asked, NEW due \in BOOLEAN, CalmTick(plan, asked, due)
  PROVE  RestingAreKnown'
<1>1. ASSUME NEW o \in watch.unsynced, ~rollBook[o].tp
      PROVE  o \in plan.watch.unsynced /\ plan.watch.latch = "unsynced"
  <2>1. o \in Grid(watch.unsynced)
    BY <1>1 DEF Grid
  <2>2. watch.latch = "unsynced"
    BY <2>1 DEF CalmTick, RestingAreKnown
  <2> QED BY <2>2 DEF CalmTick, PlanIsSound
<1>2. ASSUME NEW o \in RungIds', ~rollBook'[o].tp, rollBook'[o].st \in {"resting", "filled"}
      PROVE  o \in shifted' \cup watch'.prev \cup watch'.sent \cup watch'.unsynced \cup hidden'
  <2>1. o \in RungIds /\ rollBook'[o] = rollBook[o] /\ ~rollBook[o].tp
    BY <1>2, CalmBook
  <2>2. o \in shifted \cup watch.prev \cup watch.sent \cup watch.unsynced \cup hidden
    BY <1>2, <2>1 DEF CalmTick, RestingAreKnown, Grid
  <2>3. ladder.on
    BY <2>1 DEF CalmTick, ActsAreDistinct, RungIds
  <2>4. shifted' = shifted \cup GridFills /\ hidden' = hidden \cup (Vanished \ GridFills)
    BY <2>3 DEF CalmTick, WatchAfter, PlanIsSound
  <2>5. o \in view.orders => o \in watch'.prev
    BY <2>1, CalmBook DEF Grid
  <2>6. CASE o \in shifted \cup hidden
    BY <2>4, <2>6
  <2>7. CASE o \in watch.prev
    BY <2>4, <2>5, <2>7 DEF Vanished
  <2>8. CASE o \in watch.sent
    BY <2>4, <2>5, <2>8 DEF GridFills
  <2>9. CASE o \in watch.unsynced
    BY <1>1, <2>1, <2>9, CalmBook
  <2> QED BY <2>2, <2>6, <2>7, <2>8, <2>9
<1>3. ASSUME NEW o \in RungIds', rollBook'[o].st = "resting", ~rollBook'[o].tp
      PROVE  o \in view'.orders \cup watch'.unsynced
  <2>1. o \in RungIds /\ rollBook'[o] = rollBook[o]
    BY <1>3, CalmBook
  <2>2. o \in Resting /\ o \in Grid(Resting)
    BY <1>3, <2>1 DEF Resting, Grid
  <2>3. CASE due
    BY <2>2, <2>3, CalmBook
  <2>4. CASE ~due
    <3>1. o \in view.orders \cup watch.unsynced
      BY <2>2 DEF CalmTick, RestingAreKnown
    <3> QED BY <1>1, <1>3, <2>1, <2>4, <3>1, CalmBook
  <2> QED BY <2>3, <2>4
<1>4. ASSUME NEW o \in watch'.unsynced, ~rollBook'[o].tp
      PROVE  watch'.latch = "unsynced"
  <2>1. ~due /\ o \in watch.unsynced /\ rollBook'[o] = rollBook[o]
    BY <1>4, CalmBook
  <2>2. plan.watch.latch = "unsynced"
    BY <1>1, <1>4, <2>1
  <2> QED BY <2>1, <2>2 DEF CalmTick, WatchAfter
<1>5. ASSUME NEW i \in DOMAIN todo'.acts, GridPlace(i)'
      PROVE  watch'.latch = "unsynced"
  <2>1. PICK o : o = todo'.acts[i].id
    OBVIOUS
  <2>2. todo'.acts[i].do = "place" /\ ~rollBook'[o].tp
    BY <1>5, <2>1 DEF GridPlace
  <2>3. o \in RungIds' /\ o \notin RungIds
    BY <2>1, <2>2 DEF CalmTick, ActsAfter
  <2>4. o - Len(rollBook) \in DOMAIN plan.places
    BY <2>2, <2>3 DEF CalmTick, BookAfter
  <2>5. plan.places # <<>>
    BY <2>4
  <2>6. ~due /\ plan.watch.latch = "unsynced"
    BY <2>5 DEF CalmTick, PlanIsSound
  <2> QED BY <2>6 DEF CalmTick, WatchAfter
<1> QED BY <1>2, <1>3, <1>4, <1>5 DEF RestingAreKnown, Grid, Resting

LEMMA CalmTickSpreads ==
  ASSUME NEW plan, NEW asked, NEW due \in BOOLEAN, CalmTick(plan, asked, due)
  PROVE  LevelsAreDistinct'
<1> DEFINE Old(o) == o \in RungIds /\ o \in Grid(Resting) /\ rollBook'[o] = rollBook[o]
           New(o) == /\ o - Len(rollBook) \in DOMAIN plan.places
                     /\ rollBook'[o].side = plan.places[o - Len(rollBook)][1]
                     /\ rollBook'[o].price = plan.places[o - Len(rollBook)][2]
                     /\ o \in (Len(rollBook) + 1)..(Len(rollBook) + Len(plan.places))
<1>1. ASSUME NEW o \in RungIds', ~rollBook'[o].tp, Current(o)'
      PROVE  Old(o) \/ New(o)
  <2>1. CASE rollBook'[o].st = "resting"
    <3>1. o \in RungIds /\ rollBook'[o] = rollBook[o]
      BY <2>1, CalmBook
    <3> QED BY <1>1, <2>1, <3>1 DEF Resting, Grid
  <2>2. CASE \E i \in DOMAIN todo'.acts : GridPlace(i)' /\ todo'.acts[i].id = o
    <3>1. PICK i \in DOMAIN todo'.acts : todo'.acts[i].do = "place" /\ todo'.acts[i].id = o
      BY <2>2 DEF GridPlace
    <3>2. o \notin RungIds
      BY <3>1 DEF CalmTick, ActsAfter
    <3> QED BY <1>1, <3>2 DEF CalmTick, BookAfter
  <2> QED BY <1>1, <2>1, <2>2 DEF Current
<1>2. ASSUME NEW o, NEW other, Old(o), Old(other),
             rollBook'[o].side = rollBook'[other].side, rollBook'[o].price = rollBook'[other].price
      PROVE  o = other
  <2>1. o \in Grid(RungIds) /\ other \in Grid(RungIds) /\ Current(o) /\ Current(other)
    BY <1>2 DEF Grid, Resting, Current
  <2> QED BY <1>2, <2>1 DEF CalmTick, LevelsAreDistinct
<1>3. ASSUME NEW o, NEW other, New(o), New(other),
             rollBook'[o].side = rollBook'[other].side, rollBook'[o].price = rollBook'[other].price
      PROVE  o = other
  <2>1. PICK i, j : i = o - Len(rollBook) /\ j = other - Len(rollBook)
    OBVIOUS
  <2>2. /\ i \in DOMAIN plan.places /\ j \in DOMAIN plan.places
        /\ plan.places[i][1] = plan.places[j][1] /\ plan.places[i][2] = plan.places[j][2]
    BY <1>3, <2>1
  <2>3. plan.places[i] \in {"BUY", "SELL"} \X Int /\ plan.places[j] \in {"BUY", "SELL"} \X Int
    BY <2>2 DEF CalmTick, PlanIsSound
  <2>4. plan.places[i] = plan.places[j]
    BY <2>2, <2>3
  <2>5. i = j
    BY <2>2, <2>4 DEF CalmTick, PlanIsSound
  <2>6. Len(rollBook) \in Nat /\ o \in Int /\ other \in Int
    BY <1>3 DEF CalmTick, BookAfter
  <2> QED BY <2>1, <2>5, <2>6
<1>4. ASSUME NEW o, NEW other, Old(o), New(other),
             rollBook'[o].side = rollBook'[other].side, rollBook'[o].price = rollBook'[other].price
      PROVE  FALSE
  <2>1. PICK j : j = other - Len(rollBook)
    OBVIOUS
  <2>2. j \in DOMAIN plan.places /\ rollBook[o].side = plan.places[j][1] /\ rollBook[o].price = plan.places[j][2]
    BY <1>4, <2>1
  <2>3. plan.places # <<>>
    BY <2>2
  <2>4. watch.latch # "unsynced"
    BY <2>3 DEF CalmTick, PlanIsSound
  <2>5. o \notin watch.unsynced
    BY <1>4, <2>4 DEF CalmTick, RestingAreKnown, Grid
  <2>6. o \in view.orders
    BY <1>4, <2>5 DEF CalmTick, RestingAreKnown
  <2>7. o \in At(plan.places[j])
    BY <2>2, <2>6 DEF At
  <2> QED BY <2>2, <2>7 DEF CalmTick, PlanIsSound
<1> HIDE DEF Old, New
<1>5. ASSUME NEW o \in Grid(RungIds)', NEW other \in Grid(RungIds)', Current(o)', Current(other)',
             rollBook'[o].side = rollBook'[other].side, rollBook'[o].price = rollBook'[other].price
      PROVE  o = other
  <2>1. o \in RungIds' /\ ~rollBook'[o].tp /\ other \in RungIds' /\ ~rollBook'[other].tp
    BY <1>5 DEF Grid
  <2>2. (Old(o) \/ New(o)) /\ (Old(other) \/ New(other))
    BY <1>1, <1>5, <2>1
  <2> QED BY <1>2, <1>3, <1>4, <1>5, <2>2
<1> QED BY <1>5 DEF LevelsAreDistinct

LEMMA TickKeeps ==
  ASSUME RLAssumption, LadderInv, TickOn
  PROVE  LadderInv'
<1>1. PICK mid \in Mids, active, paused, cool, due \in BOOLEAN :
        /\ ~active \/ paused => odd < MaxOdd
        /\ odd' = IF ~active \/ paused THEN odd + 1 ELSE odd
        /\ \E plan \in {PlanOf(mid, active, paused)} :
             \E new \in {CycleOf(plan, paused, cool)} :
               /\ Tick(plan, new, Actions(plan, new), cool, due)
               /\ astray' = (astray \/ paused \/ (due /\ plan.places # <<>>))
  BY Zenon DEF TickOn
<1>2. PICK plan, new : /\ plan = PlanOf(mid, active, paused) /\ new = CycleOf(plan, paused, cool)
                       /\ Tick(plan, new, Actions(plan, new), cool, due)
                       /\ astray' = (astray \/ paused \/ (due /\ plan.places # <<>>))
  BY <1>1
<1>3. PICK own : own = Actions(plan, new)
  OBVIOUS
<1>4. LadderTypeOK /\ ActsAreDistinct /\ astray \in BOOLEAN
  BY DEF LadderInv, LadderTypeOK
<1>5. /\ PlanIsSound(plan, paused) /\ BookAfter(plan)
      /\ ActsAfter(plan, Cancels(own)) /\ WatchAfter(plan, Cancels(own), due)
  BY <1>2, <1>3, <1>4, TickOutcome
<1>6. PICK asked : asked = Cancels(own)
  OBVIOUS
<1>7. ActsAfter(plan, asked) /\ WatchAfter(plan, asked, due)
  BY <1>5, <1>6
<1>8. astray' \in BOOLEAN
  BY <1>2, <1>4
<1>9. LadderTypeOK' /\ ActsAreDistinct'
  BY <1>4, <1>5, <1>7, <1>8, TickKeepsTypes
<1>10. ASSUME ~astray'
       PROVE  CancelsAreRegistered' /\ GoneAreFilled' /\ RestingAreKnown' /\ LevelsAreDistinct'
  <2>1. ~astray /\ paused = FALSE /\ (due => plan.places = <<>>)
    BY <1>2, <1>10
  <2>2. CancelsAreRegistered /\ GoneAreFilled /\ RestingAreKnown /\ LevelsAreDistinct
    BY <2>1 DEF LadderInv
  <2>3. PlanIsSound(plan, FALSE)
    BY <1>5, <2>1
  <2>4. CalmTick(plan, asked, due)
    BY <1>4, <1>5, <1>7, <2>1, <2>2, <2>3 DEF CalmTick
  <2> QED BY <2>4, CalmTickRegisters, CalmTickFills, CalmTickKnows, CalmTickSpreads
<1> QED BY <1>9, <1>10 DEF LadderInv

-----------------------------------------------------------------------------
\* Between two ticks one order changes at a time.

\* What stays as it is when k actions leave the queue and order o may change.
Touches(o, k) ==
  /\ o \in RungIds /\ k \in {0, 1}
  /\ rollBook' \in Seq(LadderOrders) /\ RungIds' = RungIds
  /\ \A p \in RungIds : /\ rollBook'[p].side = rollBook[p].side /\ rollBook'[p].price = rollBook[p].price
                        /\ rollBook'[p].tp = rollBook[p].tp /\ (p # o => rollBook'[p].st = rollBook[p].st)
  /\ todo'.acts \in Seq(LadderActs)
  /\ \A i \in DOMAIN todo'.acts : i \in Nat /\ i + k \in DOMAIN todo.acts /\ todo'.acts[i] = todo.acts[i + k]
  /\ view' = view /\ ladder' = ladder /\ shifted' = shifted /\ hidden' = hidden
  /\ watch' \in Watches /\ watch'.prev = watch.prev /\ watch'.cancels = watch.cancels
  /\ watch'.sent = watch.sent /\ watch'.latch = watch.latch
  /\ watch.unsynced \subseteq watch'.unsynced /\ watch'.unsynced \subseteq watch.unsynced \cup {o}
  /\ \A p \in DOMAIN retries' : p \in RungIds /\ rollBook[p].tp
  /\ astray' \in BOOLEAN /\ (~astray' => ~astray)

\* How the order may change: not at all, any way a take-profit does, taken by
\* the exchange, filled, or cancelled as the engine asked.
Changes(o, k) ==
  \/ rollBook'[o].st = rollBook[o].st /\ watch'.unsynced = watch.unsynced
  \/ rollBook[o].tp
  \/ /\ k = 1 /\ 1 \in DOMAIN todo.acts /\ GridPlace(1) /\ todo.acts[1].id = o
     /\ rollBook'[o].st = "resting" /\ o \in watch'.unsynced
  \/ /\ rollBook[o].st = "resting" /\ watch'.unsynced = watch.unsynced
     /\ \/ rollBook'[o].st = "filled"
        \/ /\ rollBook'[o].st = "cancelled"
           /\ astray' \/ (o \in watch.cancels /\ o \notin watch.sent \cup watch.unsynced)

LEMMA TouchKeepsTypes ==
  ASSUME LadderTypeOK, ActsAreDistinct, NEW o, NEW k, Touches(o, k), Changes(o, k)
  PROVE  LadderTypeOK' /\ ActsAreDistinct'
<1>1. LadderTypeOK'
  <2>1. /\ rollBook' \in Seq(LadderOrders) /\ view'.orders \subseteq RungIds' /\ ladder' \in Ladders
        /\ watch' \in Watches /\ todo'.acts \in Seq(LadderActs) /\ shifted' \subseteq RungIds' /\ astray' \in BOOLEAN
    BY DEF Touches, LadderTypeOK
  <2>2. watch'.prev \subseteq RungIds' /\ watch'.sent \subseteq RungIds' /\ watch'.unsynced \subseteq RungIds'
    BY DEF Touches, LadderTypeOK
  <2> QED BY <2>1, <2>2 DEF LadderTypeOK
<1>2. ASSUME NEW i \in DOMAIN todo'.acts
      PROVE  /\ i \in Nat /\ i + k \in DOMAIN todo.acts /\ todo'.acts[i] = todo.acts[i + k]
             /\ todo'.acts[i].id \in RungIds' /\ rollBook'[todo'.acts[i].id].tp = rollBook[todo.acts[i + k].id].tp
             /\ GridPlace(i)' => GridPlace(i + k)
  <2>1. i \in Nat /\ i + k \in DOMAIN todo.acts /\ todo'.acts[i] = todo.acts[i + k]
    BY DEF Touches
  <2>2. PICK a : a = todo.acts[i + k]
    OBVIOUS
  <2>3. a.id \in RungIds
    BY <2>1, <2>2 DEF ActsAreDistinct
  <2>4. rollBook'[a.id].tp = rollBook[a.id].tp /\ a.id \in RungIds'
    BY <2>3 DEF Touches
  <2>5. todo'.acts[i] = a
    BY <2>1, <2>2
  <2>6. GridPlace(i)' => GridPlace(i + k)
    BY <2>2, <2>4, <2>5 DEF GridPlace
  <2> QED BY <2>1, <2>2, <2>4, <2>5, <2>6
<1>3. ASSUME NEW i \in DOMAIN todo'.acts, GridPlace(i)'
      PROVE  rollBook'[todo'.acts[i].id].st = "unsent"
  <2>1. PICK p : p = todo'.acts[i].id
    OBVIOUS
  <2>2. /\ i + k \in DOMAIN todo.acts /\ GridPlace(i + k) /\ todo.acts[i + k].id = p /\ i \in Nat
    BY <1>2, <1>3, <2>1
  <2>3. rollBook[p].st = "unsent" /\ ~rollBook[p].tp /\ p \in RungIds
    BY <2>2 DEF ActsAreDistinct, GridPlace
  <2>4. CASE p # o
    BY <2>1, <2>3, <2>4 DEF Touches
  <2>5. CASE p = o
    <3>1. ASSUME k = 1, 1 \in DOMAIN todo.acts, GridPlace(1), todo.acts[1].id = o PROVE FALSE
      <4>1. i + k = 1
        BY <2>2, <2>5, <3>1 DEF ActsAreDistinct
      <4>2. i = 0
        BY <2>2, <3>1, <4>1
      <4>3. i \in 1..Len(todo'.acts)
        BY <1>3 DEF Touches
      <4> QED BY <4>2, <4>3
    <3>2. rollBook'[o].st = rollBook[o].st
      BY <2>3, <2>5, <3>1 DEF Changes
    <3> QED BY <2>1, <2>3, <2>5, <3>2
  <2> QED BY <2>4, <2>5
<1>4. ASSUME NEW i \in DOMAIN todo'.acts, NEW j \in DOMAIN todo'.acts, GridPlace(i)', GridPlace(j)',
             todo'.acts[i].id = todo'.acts[j].id
      PROVE  i = j
  <2>1. /\ i + k \in DOMAIN todo.acts /\ GridPlace(i + k) /\ j + k \in DOMAIN todo.acts /\ GridPlace(j + k)
        /\ todo.acts[i + k].id = todo.acts[j + k].id
    BY <1>2, <1>4
  <2>2. i + k = j + k
    BY <2>1 DEF ActsAreDistinct
  <2>3. i \in Nat /\ j \in Nat /\ k \in {0, 1}
    BY <1>2 DEF Touches
  <2> QED BY <2>2, <2>3
<1>5. \A p \in DOMAIN retries' : p \in RungIds' /\ rollBook'[p].tp
  BY DEF Touches
<1>6. ~ladder'.on => rollBook' = <<>>
  BY DEF Touches, ActsAreDistinct, RungIds
<1>7. ASSUME NEW i \in DOMAIN todo'.acts
      PROVE  /\ todo'.acts[i].do = "retry" => rollBook'[todo'.acts[i].id].tp
             /\ todo'.acts[i].do = "place" /\ todo'.acts[i].why = "TP_CLOSE" => rollBook'[todo'.acts[i].id].tp
  <2>1. PICK a, j : j = i + k /\ a = todo.acts[j]
    OBVIOUS
  <2>2. j \in DOMAIN todo.acts /\ todo'.acts[i] = a /\ rollBook'[a.id].tp = rollBook[a.id].tp
    BY <1>2, <2>1
  <2>3. /\ a.do = "retry" => rollBook[a.id].tp
        /\ a.do = "place" /\ a.why = "TP_CLOSE" => rollBook[a.id].tp
    BY <2>1, <2>2 DEF ActsAreDistinct
  <2> QED BY <2>2, <2>3
<1>8. ActsAreDistinct'
  BY <1>2, <1>3, <1>4, <1>5, <1>6, <1>7 DEF ActsAreDistinct
<1> QED BY <1>1, <1>8

LEMMA TouchKeepsRest ==
  ASSUME LadderTypeOK, ActsAreDistinct, CancelsAreRegistered, GoneAreFilled, RestingAreKnown, LevelsAreDistinct,
         NEW o, NEW k, Touches(o, k), Changes(o, k), ~astray'
  PROVE  CancelsAreRegistered' /\ GoneAreFilled' /\ RestingAreKnown' /\ LevelsAreDistinct'
<1>1. ASSUME NEW p \in RungIds
      PROVE  /\ p \in RungIds' /\ rollBook'[p].side = rollBook[p].side /\ rollBook'[p].price = rollBook[p].price
             /\ rollBook'[p].tp = rollBook[p].tp
             /\ p # o => rollBook'[p].st = rollBook[p].st
  BY DEF Touches
<1>2. RungIds' = RungIds /\ view' = view /\ watch'.prev = watch.prev /\ watch'.cancels = watch.cancels
      /\ watch'.sent = watch.sent /\ watch'.latch = watch.latch /\ shifted' = shifted /\ hidden' = hidden
      /\ watch.unsynced \subseteq watch'.unsynced /\ o \in RungIds /\ view.orders \subseteq RungIds
  BY DEF Touches, LadderTypeOK
\* What the change of the order itself means, when it is a grid order.
<1>3. ASSUME ~rollBook[o].tp
      PROVE  /\ rollBook[o].st # "unsent" => rollBook'[o].st # "unsent"
             /\ rollBook'[o].st = "cancelled" => rollBook[o].st = "cancelled" \/ o \in watch.cancels
             /\ rollBook[o].st = "filled" => rollBook'[o].st = "filled"
             /\ rollBook[o].st = "resting" /\ o \in watch.sent \cup watch.unsynced => rollBook'[o].st \in {"resting", "filled"}
             /\ rollBook'[o].st = "resting" => Current(o)
             /\ rollBook'[o].st \in {"resting", "filled"} => rollBook[o].st \in {"resting", "filled"} \/ o \in watch'.unsynced
             /\ o \in watch'.unsynced /\ o \notin watch.unsynced =>
                  rollBook[o].st = "unsent" /\ watch.latch = "unsynced" /\ rollBook'[o].st = "resting"
  <2>1. CASE rollBook'[o].st = rollBook[o].st /\ watch'.unsynced = watch.unsynced
    BY <2>1 DEF Current
  <2>2. CASE /\ 1 \in DOMAIN todo.acts /\ GridPlace(1) /\ todo.acts[1].id = o
             /\ rollBook'[o].st = "resting" /\ o \in watch'.unsynced
    <3>1. rollBook[o].st = "unsent" /\ watch.latch = "unsynced" /\ Current(o)
      BY <2>2 DEF ActsAreDistinct, RestingAreKnown, Current
    <3> QED BY <2>2, <3>1
  <2>3. CASE /\ rollBook[o].st = "resting" /\ watch'.unsynced = watch.unsynced
             /\ \/ rollBook'[o].st = "filled"
                \/ rollBook'[o].st = "cancelled" /\ o \in watch.cancels /\ o \notin watch.sent \cup watch.unsynced
    BY <2>3
  <2> QED BY <1>3, <2>1, <2>2, <2>3 DEF Changes
<1>4. ASSUME NEW p \in watch'.unsynced
      PROVE  p \in watch.unsynced \/ p = o
  BY DEF Touches
<1>5. ASSUME NEW i \in DOMAIN todo'.acts
      PROVE  /\ i + k \in DOMAIN todo.acts /\ todo'.acts[i] = todo.acts[i + k] /\ todo.acts[i + k].id \in RungIds
             /\ GridPlace(i)' => GridPlace(i + k)
  <2>1. i + k \in DOMAIN todo.acts /\ todo'.acts[i] = todo.acts[i + k]
    BY DEF Touches
  <2>2. PICK a : a = todo.acts[i + k]
    OBVIOUS
  <2>3. a.id \in RungIds
    BY <2>1, <2>2 DEF ActsAreDistinct
  <2> QED BY <1>1, <2>1, <2>2, <2>3 DEF GridPlace
<1>6. CancelsAreRegistered'
  <2>1. ASSUME NEW i \in DOMAIN todo'.acts, todo'.acts[i].do = "cancel", ~rollBook'[todo'.acts[i].id].tp
        PROVE  /\ todo'.acts[i].id \in watch'.cancels /\ todo'.acts[i].id \notin watch'.sent \cup watch'.unsynced
               /\ rollBook'[todo'.acts[i].id].st # "unsent"
    <3>1. PICK p, j : j = i + k /\ p = todo.acts[j].id
      OBVIOUS
    <3>2. /\ j \in DOMAIN todo.acts /\ todo.acts[j].do = "cancel" /\ p \in RungIds /\ todo'.acts[i].id = p
      BY <1>5, <2>1, <3>1
    <3>3. ~rollBook[p].tp
      BY <1>1, <2>1, <3>2
    <3>4. p \in watch.cancels /\ p \notin watch.sent \cup watch.unsynced /\ rollBook[p].st # "unsent"
      BY <3>1, <3>2, <3>3 DEF CancelsAreRegistered
    <3>5. rollBook'[p].st # "unsent" /\ p \notin watch'.unsynced
      BY <1>1, <1>3, <1>4, <3>2, <3>3, <3>4
    <3> QED BY <1>2, <3>2, <3>4, <3>5
  <2>2. ASSUME NEW p \in view'.orders, ~rollBook'[p].tp
        PROVE  /\ rollBook'[p].st # "unsent" /\ p \notin watch'.unsynced
               /\ rollBook'[p].st = "cancelled" => p \in watch'.cancels
    <3>1. p \in view.orders /\ p \in RungIds /\ ~rollBook[p].tp
      BY <1>1, <1>2, <2>2
    <3>2. /\ rollBook[p].st # "unsent" /\ p \notin watch.unsynced
          /\ rollBook[p].st = "cancelled" => p \in watch.cancels
      BY <3>1 DEF CancelsAreRegistered, Grid
    <3> QED BY <1>1, <1>2, <1>3, <1>4, <3>1, <3>2
  <2> QED BY <2>1, <2>2 DEF CancelsAreRegistered, Grid
<1>7. GoneAreFilled'
  <2>1. ASSUME NEW p \in RungIds, ~rollBook[p].tp
        PROVE  rollBook[p].st = "filled" => rollBook'[p].st = "filled"
    BY <1>1, <1>3, <2>1
  <2>2. ASSUME NEW p \in watch'.prev
        PROVE  /\ p \in RungIds' /\ ~rollBook'[p].tp
               /\ p \in view'.orders \cup watch'.cancels \/ rollBook'[p].st = "filled"
    <3>1. /\ p \in RungIds /\ ~rollBook[p].tp
          /\ p \in view.orders \cup watch.cancels \/ rollBook[p].st = "filled"
      BY <1>2 DEF GoneAreFilled, Grid
    <3> QED BY <1>1, <1>2, <2>1, <3>1
  <2>3. ASSUME NEW p \in watch'.sent
        PROVE  p \in RungIds' /\ (rollBook'[p].tp \/ p \in view'.orders \/ rollBook'[p].st = "filled")
    <3>1. p \in RungIds /\ (rollBook[p].tp \/ p \in view.orders \/ rollBook[p].st = "filled")
      BY <1>2 DEF GoneAreFilled
    <3> QED BY <1>1, <1>2, <2>1, <3>1
  <2>4. ASSUME NEW p \in watch'.unsynced
        PROVE  p \in RungIds' /\ (rollBook'[p].tp \/ rollBook'[p].st \in {"resting", "filled"})
    <3>1. CASE p \in watch.unsynced
      <4>1. p \in RungIds /\ (rollBook[p].tp \/ rollBook[p].st \in {"resting", "filled"})
        BY <3>1 DEF GoneAreFilled
      <4> QED BY <1>1, <1>3, <3>1, <4>1
    <3>2. CASE p = o /\ p \notin watch.unsynced
      BY <1>1, <1>2, <1>3, <2>4, <3>2
    <3> QED BY <1>4, <3>1, <3>2
  <2>5. ASSUME NEW p \in shifted', ~rollBook'[p].tp
        PROVE  rollBook'[p].st = "filled"
    <3>1. p \in shifted /\ p \in RungIds
      BY <1>2 DEF LadderTypeOK
    <3>2. ~rollBook[p].tp /\ rollBook[p].st = "filled"
      BY <1>1, <2>5, <3>1 DEF GoneAreFilled, Grid
    <3> QED BY <2>1, <3>1, <3>2
  <2> QED BY <2>2, <2>3, <2>4, <2>5 DEF GoneAreFilled, Grid
<1>8. RestingAreKnown'
  <2>1. ASSUME NEW p \in RungIds', ~rollBook'[p].tp, rollBook'[p].st \in {"resting", "filled"}
        PROVE  p \in shifted' \cup watch'.prev \cup watch'.sent \cup watch'.unsynced \cup hidden'
    <3>1. p \in RungIds /\ ~rollBook[p].tp
      BY <1>1, <1>2, <2>1
    <3>2. rollBook[p].st \in {"resting", "filled"} \/ p \in watch'.unsynced
      BY <1>1, <1>3, <2>1, <3>1
    <3>3. rollBook[p].st \in {"resting", "filled"} =>
            p \in shifted \cup watch.prev \cup watch.sent \cup watch.unsynced \cup hidden
      BY <3>1 DEF RestingAreKnown, Grid
    <3> QED BY <1>2, <3>2, <3>3
  <2>2. ASSUME NEW p \in RungIds', ~rollBook'[p].tp, rollBook'[p].st = "resting"
        PROVE  p \in view'.orders \cup watch'.unsynced
    <3>1. p \in RungIds /\ ~rollBook[p].tp
      BY <1>1, <1>2, <2>2
    <3>2. CASE rollBook[p].st = "resting"
      <4>1. p \in view.orders \cup watch.unsynced
        BY <3>1, <3>2 DEF RestingAreKnown, Grid, Resting
      <4> QED BY <1>2, <4>1
    <3>3. CASE rollBook[p].st # "resting"
      <4>1. p = o
        BY <1>1, <2>2, <3>1, <3>3
      <4>2. rollBook'[o].st # rollBook[o].st /\ ~rollBook[o].tp
        BY <2>2, <3>1, <3>3, <4>1
      <4>3. o \in watch'.unsynced
        BY <2>2, <3>3, <4>1, <4>2 DEF Changes
      <4> QED BY <4>1, <4>3
    <3> QED BY <3>2, <3>3
  <2>3. ASSUME NEW p \in watch'.unsynced, ~rollBook'[p].tp
        PROVE  watch'.latch = "unsynced"
    <3>1. CASE p \in watch.unsynced
      <4>1. p \in Grid(watch.unsynced)
        BY <1>1, <2>3, <3>1 DEF Grid, LadderTypeOK
      <4> QED BY <1>2, <4>1 DEF RestingAreKnown
    <3>2. CASE p = o /\ p \notin watch.unsynced
      <4>1. ~rollBook[o].tp
        BY <1>1, <1>2, <2>3, <3>2
      <4> QED BY <1>2, <1>3, <2>3, <3>2, <4>1
    <3> QED BY <1>4, <3>1, <3>2
  <2>4. ASSUME NEW i \in DOMAIN todo'.acts, GridPlace(i)'
        PROVE  watch'.latch = "unsynced"
    BY <1>2, <1>5, <2>4 DEF RestingAreKnown
  <2> QED BY <2>1, <2>2, <2>3, <2>4 DEF RestingAreKnown, Grid, Resting
<1>9. LevelsAreDistinct'
  <2>1. ASSUME NEW p \in RungIds', ~rollBook'[p].tp, Current(p)'
        PROVE  p \in Grid(RungIds) /\ Current(p)
    <3>1. p \in RungIds /\ ~rollBook[p].tp
      BY <1>1, <1>2, <2>1
    <3>2. CASE rollBook'[p].st = "resting"
      BY <1>1, <1>3, <3>1, <3>2 DEF Current, Grid
    <3>3. CASE \E i \in DOMAIN todo'.acts : GridPlace(i)' /\ todo'.acts[i].id = p
      <4>1. PICK i \in DOMAIN todo'.acts : GridPlace(i)' /\ todo'.acts[i].id = p
        BY <3>3
      <4>2. i + k \in DOMAIN todo.acts /\ GridPlace(i + k) /\ todo.acts[i + k].id = p
        BY <1>5, <4>1
      <4> QED BY <3>1, <4>2 DEF Current, Grid
    <3> QED BY <2>1, <3>2, <3>3 DEF Current
  <2>2. ASSUME NEW p \in Grid(RungIds)', NEW q \in Grid(RungIds)', Current(p)', Current(q)',
               rollBook'[p].side = rollBook'[q].side, rollBook'[p].price = rollBook'[q].price
        PROVE  p = q
    <3>1. p \in RungIds' /\ ~rollBook'[p].tp /\ q \in RungIds' /\ ~rollBook'[q].tp
      BY <2>2 DEF Grid
    <3>2. p \in Grid(RungIds) /\ Current(p) /\ q \in Grid(RungIds) /\ Current(q)
      BY <2>1, <2>2, <3>1
    <3>3. rollBook[p].side = rollBook[q].side /\ rollBook[p].price = rollBook[q].price
      BY <1>1, <1>2, <2>2, <3>1
    <3> QED BY <3>2, <3>3 DEF LevelsAreDistinct
  <2> QED BY <2>2 DEF LevelsAreDistinct
<1> QED BY <1>6, <1>7, <1>8, <1>9

\* The parts of a step between two ticks.
LEMMA TurnedForms ==
  ASSUME LadderTypeOK, NEW o \in RungIds, NEW st \in OrderStates, rollBook' = Turned(o, st)
  PROVE  /\ rollBook' \in Seq(LadderOrders) /\ RungIds' = RungIds
         /\ \A p \in RungIds : /\ rollBook'[p].side = rollBook[p].side /\ rollBook'[p].price = rollBook[p].price
                               /\ rollBook'[p].tp = rollBook[p].tp /\ (p # o => rollBook'[p].st = rollBook[p].st)
         /\ rollBook'[o].st = st
<1>1. PICK book : book = rollBook
  OBVIOUS
<1>2. book \in Seq(LadderOrders) /\ o \in 1..Len(book)
  BY <1>1 DEF LadderTypeOK, RungIds
<1>3. rollBook' = [book EXCEPT ![o].st = st]
  BY <1>1 DEF Turned
<1>4. PICK turned : turned = [book[o] EXCEPT !.st = st]
  OBVIOUS
<1>5. book[o] \in LadderOrders
  BY <1>2
<1>6. /\ turned \in LadderOrders /\ turned.side = book[o].side /\ turned.price = book[o].price
      /\ turned.tp = book[o].tp /\ turned.st = st
  BY <1>4, <1>5 DEF LadderOrders
<1>7. rollBook' = [book EXCEPT ![o] = turned]
  BY <1>3, <1>4
<1> HIDE DEF LadderOrders
<1>8. /\ rollBook' \in Seq(LadderOrders) /\ Len(rollBook') = Len(book) /\ rollBook'[o] = turned
      /\ \A p \in 1..Len(book) : p # o => rollBook'[p] = book[p]
  BY <1>2, <1>6, <1>7
<1>9. RungIds' = RungIds /\ RungIds = 1..Len(book)
  BY <1>1, <1>8 DEF RungIds
<1> QED BY <1>1, <1>6, <1>8, <1>9

LEMMA RestForms ==
  ASSUME LadderTypeOK, todo.acts # <<>>, NEW dead, todo' = Rest(dead)
  PROVE  /\ todo'.acts \in Seq(LadderActs) /\ 1 \in DOMAIN todo.acts
         /\ \A i \in DOMAIN todo'.acts : i \in Nat /\ i + 1 \in DOMAIN todo.acts /\ todo'.acts[i] = todo.acts[i + 1]
<1>1. PICK q : q = todo.acts
  OBVIOUS
<1>2. q \in Seq(LadderActs) /\ q # <<>> /\ todo'.acts = Tail(q)
  BY <1>1 DEF LadderTypeOK, Rest
<1> HIDE DEF LadderActs
<1>3. /\ Tail(q) \in Seq(LadderActs) /\ 1 \in DOMAIN q
      /\ \A i \in DOMAIN Tail(q) : i \in Nat /\ i + 1 \in DOMAIN q /\ Tail(q)[i] = q[i + 1]
  BY <1>2
<1> QED BY <1>1, <1>2, <1>3

LEMMA SentForms ==
  ASSUME LadderTypeOK, NEW o \in RungIds, watch' = Sent(o)
  PROVE  /\ watch' \in Watches /\ watch'.prev = watch.prev /\ watch'.cancels = watch.cancels
         /\ watch'.sent = watch.sent /\ watch'.latch = watch.latch
         /\ watch'.unsynced = watch.unsynced \cup {o}
<1>1. watch \in Watches /\ o \in Nat
  BY DEF LadderTypeOK, RungIds
<1>2. PICK new : new = watch.unsynced \cup {o}
  OBVIOUS
<1>3. new \subseteq Nat
  BY <1>1, <1>2 DEF Watches
<1>4. watch' = [watch EXCEPT !.unsynced = new]
  BY <1>2 DEF Sent
<1> QED BY <1>1, <1>2, <1>3, <1>4 DEF Watches

LEMMA PlacingKeeps ==
  ASSUME LadderInv, PlaceTaken
  PROVE  LadderInv'
<1> DEFINE o == todo.acts[1].id
<1>1. LadderTypeOK /\ ActsAreDistinct
  BY DEF LadderInv
<1>2. /\ todo.acts # <<>> /\ todo.acts[1].do \in {"place", "retry"} /\ rollBook' = Turned(o, "resting")
      /\ watch' = Sent(o) /\ todo' = Rest({}) /\ retries' = [p \in DOMAIN retries \ {o} |-> retries[p]]
      /\ view' = view /\ ladder' = ladder /\ shifted' = shifted /\ hidden' = hidden /\ astray' = astray
  BY DEF PlaceTaken, Head1
<1>3. 1 \in DOMAIN todo.acts
  BY <1>1, <1>2, RestForms
<1>4. o \in RungIds /\ (todo.acts[1].do = "retry" => rollBook[o].tp)
  BY <1>1, <1>3 DEF ActsAreDistinct
<1>5. ~rollBook[o].tp => GridPlace(1)
  BY <1>2, <1>4 DEF GridPlace
<1>6. PICK p : p = o
  OBVIOUS
<1> HIDE DEF o
<1>7. "resting" \in OrderStates
  BY DEF OrderStates
<1>8. Touches(p, 1)
  <2>1. /\ rollBook' \in Seq(LadderOrders) /\ RungIds' = RungIds
        /\ \A q \in RungIds : /\ rollBook'[q].side = rollBook[q].side /\ rollBook'[q].price = rollBook[q].price
                              /\ rollBook'[q].tp = rollBook[q].tp /\ (q # o => rollBook'[q].st = rollBook[q].st)
    BY <1>1, <1>2, <1>4, <1>7, TurnedForms
  <2>2. /\ watch' \in Watches /\ watch'.prev = watch.prev /\ watch'.cancels = watch.cancels
        /\ watch'.sent = watch.sent /\ watch'.latch = watch.latch
        /\ watch'.unsynced = watch.unsynced \cup {o}
    BY <1>1, <1>2, <1>4, SentForms
  <2>3. /\ todo'.acts \in Seq(LadderActs)
        /\ \A i \in DOMAIN todo'.acts : i \in Nat /\ i + 1 \in DOMAIN todo.acts /\ todo'.acts[i] = todo.acts[i + 1]
    BY <1>1, <1>2, RestForms
  <2>4. \A q \in DOMAIN retries' : q \in RungIds /\ rollBook[q].tp
    BY <1>1, <1>2 DEF ActsAreDistinct
  <2>5. astray' \in BOOLEAN /\ (~astray' => ~astray)
    BY <1>1, <1>2 DEF LadderTypeOK
  <2> QED BY <1>2, <1>4, <1>6, <2>1, <2>2, <2>3, <2>4, <2>5 DEF Touches
<1>9. rollBook'[o].st = "resting" /\ o \in watch'.unsynced
  BY <1>1, <1>2, <1>4, <1>7, TurnedForms, SentForms
<1>10. Changes(p, 1)
  BY <1>3, <1>5, <1>6, <1>9 DEF Changes, o
<1>11. LadderTypeOK' /\ ActsAreDistinct'
  BY <1>1, <1>8, <1>10, TouchKeepsTypes
<1>12. ~astray' => CancelsAreRegistered' /\ GoneAreFilled' /\ RestingAreKnown' /\ LevelsAreDistinct'
  BY <1>1, <1>2, <1>8, <1>10, TouchKeepsRest DEF LadderInv
<1> QED BY <1>11, <1>12 DEF LadderInv

LEMMA SameBook ==
  ASSUME LadderTypeOK, rollBook' = rollBook
  PROVE  /\ rollBook' \in Seq(LadderOrders) /\ RungIds' = RungIds
         /\ \A p \in RungIds : rollBook'[p] = rollBook[p]
BY DEF LadderTypeOK, RungIds

LEMMA RefusedKeeps ==
  ASSUME LadderInv, PlaceRefused
  PROVE  LadderInv'
<1> DEFINE o == todo.acts[1].id
<1>1. LadderTypeOK /\ ActsAreDistinct
  BY DEF LadderInv
<1>2. PICK dead : todo' = Rest(dead)
  BY DEF PlaceRefused
<1>3. /\ todo.acts # <<>> /\ rollBook' = rollBook /\ watch' = watch
      /\ view' = view /\ ladder' = ladder /\ shifted' = shifted /\ hidden' = hidden /\ astray' = astray
  BY DEF PlaceRefused
<1>4. 1 \in DOMAIN todo.acts
  BY <1>1, <1>2, <1>3, RestForms
<1>5. o \in RungIds /\ (todo.acts[1].why = "TP_CLOSE" /\ todo.acts[1].do = "place" => rollBook[o].tp)
  BY <1>1, <1>4 DEF ActsAreDistinct
<1>6. \A q \in DOMAIN retries' : q \in RungIds /\ rollBook[q].tp
  <2>1. \/ retries' = [retries EXCEPT ![o] = @ + 1]
        \/ /\ todo.acts[1].why = "TP_CLOSE" /\ todo.acts[1].do = "place"
           /\ retries' = [q \in DOMAIN retries \cup {o} |-> IF q = o THEN 0 ELSE retries[q]]
        \/ retries' = retries
    BY DEF PlaceRefused, Head1
  <2>2. \A q \in DOMAIN retries : q \in RungIds /\ rollBook[q].tp
    BY <1>1 DEF ActsAreDistinct
  <2>3. CASE retries' = [retries EXCEPT ![o] = @ + 1]
    <3>1. DOMAIN retries' = DOMAIN retries
      BY <2>3
    <3> QED BY <2>2, <3>1
  <2>4. CASE /\ todo.acts[1].why = "TP_CLOSE" /\ todo.acts[1].do = "place"
             /\ retries' = [q \in DOMAIN retries \cup {o} |-> IF q = o THEN 0 ELSE retries[q]]
    <3>1. DOMAIN retries' = DOMAIN retries \cup {o}
      BY <2>4
    <3> QED BY <1>5, <2>2, <2>4, <3>1
  <2>5. CASE retries' = retries
    BY <2>2, <2>5
  <2> QED BY <2>1, <2>3, <2>4, <2>5
<1>7. PICK p : p = o
  OBVIOUS
<1> HIDE DEF o
<1>8. Touches(p, 1)
  <2>1. /\ rollBook' \in Seq(LadderOrders) /\ RungIds' = RungIds /\ \A q \in RungIds : rollBook'[q] = rollBook[q]
    BY <1>1, <1>3, SameBook
  <2>2. /\ todo'.acts \in Seq(LadderActs)
        /\ \A i \in DOMAIN todo'.acts : i \in Nat /\ i + 1 \in DOMAIN todo.acts /\ todo'.acts[i] = todo.acts[i + 1]
    BY <1>1, <1>2, <1>3, RestForms
  <2>3. watch' \in Watches /\ astray' \in BOOLEAN /\ (~astray' => ~astray)
    BY <1>1, <1>3 DEF LadderTypeOK
  <2>4. watch.unsynced \subseteq watch'.unsynced /\ watch'.unsynced \subseteq watch.unsynced \cup {p}
    BY <1>3
  <2> QED BY <1>3, <1>5, <1>6, <1>7, <2>1, <2>2, <2>3, <2>4 DEF Touches
<1>9. Changes(p, 1)
  BY <1>3 DEF Changes
<1>10. LadderTypeOK' /\ ActsAreDistinct'
  BY <1>1, <1>8, <1>9, TouchKeepsTypes
<1>11. ~astray' => CancelsAreRegistered' /\ GoneAreFilled' /\ RestingAreKnown' /\ LevelsAreDistinct'
  BY <1>1, <1>3, <1>8, <1>9, TouchKeepsRest DEF LadderInv
<1> QED BY <1>10, <1>11 DEF LadderInv

LEMMA DroppingKeeps ==
  ASSUME LadderInv, CancelDropped
  PROVE  LadderInv'
<1> DEFINE o == todo.acts[1].id
<1>1. LadderTypeOK /\ ActsAreDistinct
  BY DEF LadderInv
<1>2. /\ todo.acts # <<>> /\ todo' = Rest({}) /\ rollBook' = rollBook /\ watch' = watch /\ retries' = retries
      /\ view' = view /\ ladder' = ladder /\ shifted' = shifted /\ hidden' = hidden /\ astray' = astray
  BY DEF CancelDropped
<1>3. 1 \in DOMAIN todo.acts
  BY <1>1, <1>2, RestForms
<1>4. PICK p : p = o
  OBVIOUS
<1>5. p \in RungIds
  BY <1>1, <1>3, <1>4 DEF ActsAreDistinct
<1> HIDE DEF o
<1>6. Touches(p, 1)
  <2>1. /\ rollBook' \in Seq(LadderOrders) /\ RungIds' = RungIds /\ \A q \in RungIds : rollBook'[q] = rollBook[q]
    BY <1>1, <1>2, SameBook
  <2>2. /\ todo'.acts \in Seq(LadderActs)
        /\ \A i \in DOMAIN todo'.acts : i \in Nat /\ i + 1 \in DOMAIN todo.acts /\ todo'.acts[i] = todo.acts[i + 1]
    BY <1>1, <1>2, RestForms
  <2>3. watch' \in Watches /\ astray' \in BOOLEAN /\ (~astray' => ~astray)
    BY <1>1, <1>2 DEF LadderTypeOK
  <2>4. watch.unsynced \subseteq watch'.unsynced /\ watch'.unsynced \subseteq watch.unsynced \cup {p}
    BY <1>2
  <2>5. \A q \in DOMAIN retries' : q \in RungIds /\ rollBook[q].tp
    BY <1>1, <1>2 DEF ActsAreDistinct
  <2> QED BY <1>2, <1>5, <2>1, <2>2, <2>3, <2>4, <2>5 DEF Touches
<1>7. Changes(p, 1)
  BY <1>2 DEF Changes
<1>8. LadderTypeOK' /\ ActsAreDistinct'
  BY <1>1, <1>6, <1>7, TouchKeepsTypes
<1>9. ~astray' => CancelsAreRegistered' /\ GoneAreFilled' /\ RestingAreKnown' /\ LevelsAreDistinct'
  BY <1>1, <1>2, <1>6, <1>7, TouchKeepsRest DEF LadderInv
<1> QED BY <1>8, <1>9 DEF LadderInv

\* A cancel of the head action's order, answered or refused.
LEMMA CancelWatch ==
  ASSUME LadderTypeOK, NEW o \in RungIds,
         \/ watch' = [watch EXCEPT !.dispatched = @ \cup {o}]
         \/ watch' = [watch EXCEPT !.dispatched = @ \cup {o}, !.failed = @ \cup {o}]
  PROVE  /\ watch' \in Watches /\ watch'.prev = watch.prev /\ watch'.cancels = watch.cancels
         /\ watch'.sent = watch.sent /\ watch'.latch = watch.latch /\ watch'.unsynced = watch.unsynced
<1>1. watch \in Watches /\ o \in Nat
  BY DEF LadderTypeOK, RungIds
<1>2. PICK gone, failed : gone = watch.dispatched \cup {o} /\ failed = watch.failed \cup {o}
  OBVIOUS
<1>3. gone \subseteq Nat /\ failed \subseteq Nat
  BY <1>1, <1>2 DEF Watches
<1>4. watch' = [watch EXCEPT !.dispatched = gone] \/ watch' = [watch EXCEPT !.dispatched = gone, !.failed = failed]
  BY <1>2
<1>5. CASE watch' = [watch EXCEPT !.dispatched = gone]
  BY <1>1, <1>3, <1>5 DEF Watches
<1>6. CASE watch' = [watch EXCEPT !.dispatched = gone, !.failed = failed]
  BY <1>1, <1>3, <1>6 DEF Watches
<1> QED BY <1>4, <1>5, <1>6

LEMMA CancellingKeeps ==
  ASSUME LadderInv, CancelSent
  PROVE  LadderInv'
<1> DEFINE o == todo.acts[1].id
<1>1. LadderTypeOK /\ ActsAreDistinct
  BY DEF LadderInv
<1>2. /\ todo.acts # <<>> /\ todo.acts[1].do = "cancel" /\ todo' = Rest({}) /\ retries' = retries
      /\ view' = view /\ ladder' = ladder /\ shifted' = shifted /\ hidden' = hidden /\ astray' = astray
  BY DEF CancelSent, Head1
<1>3. \/ /\ rollBook[o].st = "resting" /\ rollBook' = Turned(o, "cancelled")
         /\ watch' = [watch EXCEPT !.dispatched = @ \cup {o}]
      \/ /\ rollBook' = rollBook
         /\ watch' = [watch EXCEPT !.dispatched = @ \cup {o}, !.failed = @ \cup {o}]
  BY DEF CancelSent, Head1
<1>4. 1 \in DOMAIN todo.acts
  BY <1>1, <1>2, RestForms
<1>5. o \in RungIds
  BY <1>1, <1>4 DEF ActsAreDistinct
<1>6. ~astray /\ ~rollBook[o].tp => o \in watch.cancels /\ o \notin watch.sent \cup watch.unsynced
  BY <1>2, <1>4 DEF LadderInv, CancelsAreRegistered
<1>7. PICK p : p = o
  OBVIOUS
<1> HIDE DEF o
<1>8. /\ watch' \in Watches /\ watch'.prev = watch.prev /\ watch'.cancels = watch.cancels
      /\ watch'.sent = watch.sent /\ watch'.latch = watch.latch /\ watch'.unsynced = watch.unsynced
  BY <1>1, <1>3, <1>5, CancelWatch
<1>9. /\ rollBook' \in Seq(LadderOrders) /\ RungIds' = RungIds
      /\ \A q \in RungIds : /\ rollBook'[q].side = rollBook[q].side /\ rollBook'[q].price = rollBook[q].price
                            /\ rollBook'[q].tp = rollBook[q].tp /\ (q # o => rollBook'[q].st = rollBook[q].st)
      /\ rollBook'[o].st = rollBook[o].st \/ (rollBook[o].st = "resting" /\ rollBook'[o].st = "cancelled")
  <2>1. CASE rollBook[o].st = "resting" /\ rollBook' = Turned(o, "cancelled")
    <3>1. "cancelled" \in OrderStates
      BY DEF OrderStates
    <3> QED BY <1>1, <1>5, <2>1, <3>1, TurnedForms
  <2>2. CASE rollBook' = rollBook
    BY <1>1, <1>5, <2>2, SameBook
  <2> QED BY <1>3, <2>1, <2>2
<1>10. Touches(p, 1)
  <2>1. /\ todo'.acts \in Seq(LadderActs)
        /\ \A i \in DOMAIN todo'.acts : i \in Nat /\ i + 1 \in DOMAIN todo.acts /\ todo'.acts[i] = todo.acts[i + 1]
    BY <1>1, <1>2, RestForms
  <2>2. astray' \in BOOLEAN /\ (~astray' => ~astray)
    BY <1>1, <1>2 DEF LadderTypeOK
  <2>3. \A q \in DOMAIN retries' : q \in RungIds /\ rollBook[q].tp
    BY <1>1, <1>2 DEF ActsAreDistinct
  <2> QED BY <1>2, <1>5, <1>7, <1>8, <1>9, <2>1, <2>2, <2>3 DEF Touches
<1>11. Changes(p, 1)
  BY <1>1, <1>2, <1>6, <1>7, <1>8, <1>9 DEF Changes
<1>12. LadderTypeOK' /\ ActsAreDistinct'
  BY <1>1, <1>10, <1>11, TouchKeepsTypes
<1>13. ~astray' => CancelsAreRegistered' /\ GoneAreFilled' /\ RestingAreKnown' /\ LevelsAreDistinct'
  BY <1>1, <1>2, <1>10, <1>11, TouchKeepsRest DEF LadderInv
<1> QED BY <1>12, <1>13 DEF LadderInv

\* The exchange's own moves: a fill, an order expired or dropped.
LEMMA ExchangeKeeps ==
  ASSUME LadderInv, NEW o \in RungIds, Fills(o) \/ Drops(o)
  PROVE  LadderInv'
<1>1. LadderTypeOK /\ ActsAreDistinct
  BY DEF LadderInv
<1>2. /\ rollBook[o].st = "resting" /\ watch' = watch /\ todo' = todo /\ retries' = retries
      /\ view' = view /\ ladder' = ladder /\ shifted' = shifted /\ hidden' = hidden
      /\ astray' = astray \/ astray' = TRUE
  BY DEF Fills, Drops, Resting
<1>3. PICK st \in {"filled", "cancelled"} :
        /\ rollBook' = Turned(o, st)
        /\ st = "cancelled" => rollBook[o].tp \/ astray' = TRUE
  BY DEF Fills, Drops
<1>4. st \in OrderStates
  BY DEF OrderStates
<1>5. /\ rollBook' \in Seq(LadderOrders) /\ RungIds' = RungIds
      /\ \A p \in RungIds : /\ rollBook'[p].side = rollBook[p].side /\ rollBook'[p].price = rollBook[p].price
                            /\ rollBook'[p].tp = rollBook[p].tp /\ (p # o => rollBook'[p].st = rollBook[p].st)
      /\ rollBook'[o].st = st
  BY <1>1, <1>3, <1>4, TurnedForms
<1>6. Touches(o, 0)
  <2>1. /\ todo'.acts \in Seq(LadderActs)
        /\ \A i \in DOMAIN todo'.acts : i \in Nat /\ i + 0 \in DOMAIN todo.acts /\ todo'.acts[i] = todo.acts[i + 0]
    <3>1. PICK q : q = todo.acts
      OBVIOUS
    <3>2. q \in Seq(LadderActs) /\ todo'.acts = q
      BY <1>1, <1>2, <3>1 DEF LadderTypeOK
    <3> HIDE DEF LadderActs
    <3>3. \A i \in DOMAIN q : i \in Nat /\ i + 0 = i
      BY <3>2
    <3> QED BY <3>1, <3>2, <3>3
  <2>2. astray' \in BOOLEAN /\ (~astray' => ~astray)
    BY <1>1, <1>2 DEF LadderTypeOK
  <2>3. \A q \in DOMAIN retries' : q \in RungIds /\ rollBook[q].tp
    BY <1>1, <1>2 DEF ActsAreDistinct
  <2>4. watch' \in Watches
    BY <1>1, <1>2 DEF LadderTypeOK
  <2> QED BY <1>2, <1>5, <2>1, <2>2, <2>3, <2>4 DEF Touches
<1>7. Changes(o, 0)
  BY <1>2, <1>3, <1>5 DEF Changes
<1>8. LadderTypeOK' /\ ActsAreDistinct'
  BY <1>1, <1>6, <1>7, TouchKeepsTypes
<1>9. ~astray' => CancelsAreRegistered' /\ GoneAreFilled' /\ RestingAreKnown' /\ LevelsAreDistinct'
  BY <1>1, <1>2, <1>6, <1>7, TouchKeepsRest DEF LadderInv
<1> QED BY <1>8, <1>9 DEF LadderInv

LEMMA LadderStarts ==
  ASSUME RLInit
  PROVE  LadderInv
<1>1. rollBook \in Seq(LadderOrders) /\ RungIds = {} /\ todo.acts \in Seq(LadderActs)
  BY DEF RLInit, RungIds
<1>2. ladder \in Ladders /\ watch \in Watches
  BY DEF RLInit, NoLadder, Ladders, Watches
<1>3. LadderTypeOK
  BY <1>1, <1>2 DEF RLInit, LadderTypeOK
<1>4. ActsAreDistinct
  BY <1>1 DEF RLInit, ActsAreDistinct
<1>5. CancelsAreRegistered /\ GoneAreFilled
  BY <1>1 DEF RLInit, CancelsAreRegistered, GoneAreFilled, Grid
<1>6. RestingAreKnown /\ LevelsAreDistinct
  BY <1>1 DEF RLInit, RestingAreKnown, LevelsAreDistinct, Grid, Resting
<1> QED BY <1>3, <1>4, <1>5, <1>6 DEF LadderInv

LEMMA LadderSteps ==
  ASSUME LadderInv, [RLNext]_rlVars
  PROVE  LadderInv'
<1>1. CASE TickOn
  BY <1>1, RLAssumption, TickKeeps
<1>2. CASE PlaceTaken
  BY <1>2, PlacingKeeps
<1>3. CASE PlaceRefused
  BY <1>3, RefusedKeeps
<1>4. CASE CancelDropped
  BY <1>4, DroppingKeeps
<1>5. CASE CancelSent
  BY <1>5, CancellingKeeps
<1>6. ASSUME NEW o \in RungIds, Fills(o) \/ Drops(o) PROVE LadderInv'
  BY <1>6, ExchangeKeeps
<1>7. CASE UNCHANGED rlVars
  <2>1. LadderTypeOK' <=> LadderTypeOK
    BY <1>7 DEF rlVars, LadderTypeOK, RungIds
  <2>2. ActsAreDistinct' <=> ActsAreDistinct
    BY <1>7 DEF rlVars, ActsAreDistinct, GridPlace, RungIds
  <2>3. CancelsAreRegistered' <=> CancelsAreRegistered
    BY <1>7 DEF rlVars, CancelsAreRegistered, Grid
  <2>4. GoneAreFilled' <=> GoneAreFilled
    BY <1>7 DEF rlVars, GoneAreFilled, Grid, RungIds
  <2>5. RestingAreKnown' <=> RestingAreKnown
    BY <1>7 DEF rlVars, RestingAreKnown, GridPlace, Grid, Resting, RungIds
  <2>6. LevelsAreDistinct' <=> LevelsAreDistinct
    BY <1>7 DEF rlVars, LevelsAreDistinct, Current, GridPlace, Grid, RungIds
  <2>7. astray' = astray
    BY <1>7 DEF rlVars
  <2> QED BY <2>1, <2>2, <2>3, <2>4, <2>5, <2>6, <2>7 DEF LadderInv
<1> QED BY <1>1, <1>2, <1>3, <1>4, <1>5, <1>6, <1>7 DEF RLNext

LEMMA LadderInvSuffices ==
  ASSUME LadderInv
  PROVE  LadderIsSound
<1> SUFFICES ASSUME ~astray PROVE LadderIsSound
  BY DEF LadderIsSound, LadderFollowsFills, OneOrderPerLevel
<1>1. GoneAreFilled /\ RestingAreKnown /\ LevelsAreDistinct /\ shifted \subseteq RungIds
  BY DEF LadderInv, LadderTypeOK
<1>2. ASSUME NEW o \in Grid(shifted) PROVE o \in RungIds /\ rollBook[o].st = "filled"
  BY <1>1 DEF GoneAreFilled, Grid
<1>3. ASSUME NEW o \in RungIds, rollBook[o].st = "filled", ~rollBook[o].tp
      PROVE  o \in shifted \cup (watch.prev \cup watch.sent \cup watch.unsynced) \cup hidden
  BY <1>1, <1>3 DEF RestingAreKnown, Grid
<1>4. LadderFollowsFills
  BY <1>2, <1>3 DEF LadderFollowsFills, Grid
<1>5. OneOrderPerLevel
  BY <1>1 DEF OneOrderPerLevel, LevelsAreDistinct, Current, Grid, Resting
<1> QED BY <1>4, <1>5 DEF LadderIsSound

\* As long as no pause outlived the time-outs, no order was dropped by the
\* exchange and no sync came between planning placements and sending them: the
\* rolling ladder moves once for every fill and for nothing else, and two grid
\* orders of one side never rest at one price (_detect_grid_fills_for_rolling,
\* apply_fill_offset, _apply_convergence_guards, _match_orders_by_price).
THEOREM LadderStaysSound == RLSpec => []LadderIsSound
<1>1. RLInit => LadderInv
  BY LadderStarts
<1>2. LadderInv /\ [RLNext]_rlVars => LadderInv'
  BY LadderSteps
<1>3. LadderInv => LadderIsSound
  BY LadderInvSuffices
<1> QED BY <1>1, <1>2, <1>3, PTL DEF RLSpec
=============================================================================
