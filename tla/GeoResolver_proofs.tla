-------------------------- MODULE GeoResolver_proofs --------------------------
(***************************************************************************)
(* What the GeoIP resolver guarantees for every set of lookups and every   *)
(* history of the file: replaced, missing or unreadable at any step.       *)
(***************************************************************************)
EXTENDS GeoResolver, TLAPS

\* The handles in each phase of New, ReloadIfChanged and Close.
Phases ==
  /\ pc = "open" => reader = 0 /\ spare = 0 /\ open = {}
  /\ pc = "stat" => reader = 0 /\ spare # 0 /\ open = {spare}
  /\ pc \in {"serving", "reopen", "stopped"} =>
       reader # 0 /\ spare = 0 /\ open = {reader}
  /\ pc \in {"swap", "close"} =>
       reader # 0 /\ spare # 0 /\ spare # reader /\ open = {reader, spare}
  /\ pc = "failed" => reader = 0 /\ spare = 0 /\ open = {}
  /\ pc = "closed" => reader # 0 /\ spare = 0 /\ open = {}

\* A lookup works on the reader in use, and on none once it is closed.
Using ==
  /\ \A l \in Lookups : using[l] \in {0, reader}
  /\ pc = "closed" => Unlocked

\* Which version each recorded or pending FileInfo describes at most.
Stats ==
  /\ \A h \in Handles : opened[h] <= file
  /\ pc = "stat" /\ ~newRaced => opened[spare] = file
  /\ pc = "reopen" => info \in Versions /\ info <= file
  /\ pc = "swap" => info \in Versions /\ info <= opened[spare]
  /\ reader # 0 /\ ~newRaced => fileInfo <= opened[reader]

\* The inductive invariant.
IInv == TypeOK /\ Phases /\ Using /\ Stats

USE GeoResolverAssumption

LEMMA InitIInv == Init => IInv
<1> SUFFICES ASSUME Init PROVE IInv
  OBVIOUS
<1>1. opened \in Seq(Versions) /\ Handles = {}
  BY DEF Init, Handles
<1>2. file \in Versions /\ using \in [Lookups -> Handles \cup {0}]
  BY DEF Init, Versions
<1>3. open \subseteq Handles /\ newRaced \in BOOLEAN
  BY DEF Init
<1>4. TypeOK
  BY <1>1, <1>2, <1>3 DEF Init, TypeOK
<1>5. Phases
  BY DEF Init, Phases
<1>6. Using
  BY DEF Init, Using
<1>7. Stats
  BY <1>1 DEF Init, Stats
<1> QED BY <1>4, <1>5, <1>6, <1>7 DEF IInv

\* Opening the path makes a new handle, of the current version.
LEMMA OpenFileFacts ==
  ASSUME IInv, OpenFile
  PROVE  /\ opened' \in Seq(Versions)
         /\ Len(opened') = Len(opened) + 1
         /\ spare' = Len(opened) + 1 /\ spare' \notin Handles
         /\ opened'[spare'] = file
         /\ \A h \in Handles : h \in Handles' /\ opened'[h] = opened[h]
         /\ spare' \in Handles' /\ spare' # 0
         /\ \A h \in Handles' : h \in Handles \/ h = spare'
         /\ open' = open \cup {spare'}
  BY DEF IInv, TypeOK, OpenFile, Handles

LEMMA NextIInv == IInv /\ [Next]_vars => IInv'
<1> SUFFICES ASSUME IInv, [Next]_vars PROVE IInv'
  OBVIOUS
<1> USE DEF IInv, Handles
<1>1. CASE Replace
  <2>1. file \in Versions /\ file' \in Versions /\ file <= file'
    BY <1>1 DEF Replace, TypeOK, Versions
  <2>2. TypeOK'
    BY <1>1, <2>1 DEF Replace, TypeOK, Versions
  <2>3. Phases' /\ Using'
    BY <1>1 DEF Replace, Phases, Using, Unlocked
  <2>4. \A h \in Handles : opened[h] \in Versions
    BY DEF TypeOK
  <2>5. (\A h \in Handles : opened[h] <= file)'
    BY <1>1, <2>1, <2>4 DEF Replace, Stats, Versions
  <2>6. (pc = "stat" => newRaced)'
    BY <1>1 DEF Replace
  <2>7. (pc = "reopen" => info \in Versions /\ info <= file)'
    BY <1>1, <2>1 DEF Replace, Stats, Versions
  <2>8. ~newRaced' => ~newRaced
    BY <1>1 DEF Replace
  <2>9. Stats'
    BY <1>1, <2>5, <2>6, <2>7, <2>8 DEF Replace, Stats, Versions
  <2> QED BY <2>2, <2>3, <2>9
<1>2. CASE NewOpens
  <2>1. CASE Openable /\ OpenFile /\ pc' = "stat"
    <3>1. TypeOK'
      BY <1>2, <2>1, OpenFileFacts DEF NewOpens, TypeOK, Versions
    <3>2. Phases'
      BY <1>2, <2>1, OpenFileFacts DEF NewOpens, TypeOK, Phases
    <3>3. Using'
      BY <1>2, <2>1 DEF NewOpens, Using, Unlocked
    <3>4. file \in Nat /\ file' = file
      BY <1>2 DEF NewOpens, TypeOK, Versions
    <3>5. (\A h \in Handles : opened[h] <= file)'
      BY <2>1, <3>4, OpenFileFacts DEF Stats
    <3>6. Stats'
      BY <1>2, <2>1, <3>4, <3>5, OpenFileFacts DEF NewOpens, Phases, Stats
    <3> QED BY <3>1, <3>2, <3>3, <3>6
  <2>2. CASE ~Openable /\ pc' = "failed" /\ UNCHANGED <<opened, open, spare>>
    BY <1>2, <2>2 DEF NewOpens, TypeOK, Phases, Using, Stats, Unlocked, Versions
  <2> QED BY <1>2, <2>1, <2>2 DEF NewOpens
<1>3. CASE NewStats
  BY <1>3 DEF NewStats, TypeOK, Phases, Using, Stats, Unlocked, Versions
<1>4. ASSUME NEW l \in Lookups, LookupBegins(l) PROVE IInv'
  BY <1>4 DEF LookupBegins, TypeOK, Phases, Using, Stats, Unlocked, Versions
<1>5. ASSUME NEW l \in Lookups, LookupEnds(l) PROVE IInv'
  BY <1>5 DEF LookupEnds, TypeOK, Phases, Using, Stats, Unlocked, Versions
<1>6. CASE ReloadStats
  BY <1>6 DEF ReloadStats, TypeOK, Phases, Using, Stats, Unlocked, Versions
<1>7. CASE ReloadOpens
  <2>1. CASE Openable /\ OpenFile /\ pc' = "swap" /\ UNCHANGED info
    <3>1. TypeOK'
      BY <1>7, <2>1, OpenFileFacts DEF ReloadOpens, TypeOK, Versions
    <3>2. Phases'
      BY <1>7, <2>1, OpenFileFacts DEF ReloadOpens, TypeOK, Phases
    <3>3. Using'
      BY <1>7, <2>1 DEF ReloadOpens, Using, Unlocked
    <3>4. file \in Nat /\ file' = file
      BY <1>7 DEF ReloadOpens, TypeOK, Versions
    <3>5. (\A h \in Handles : opened[h] <= file)'
      BY <2>1, <3>4, OpenFileFacts DEF Stats
    <3>6. reader \in Handles /\ reader' = reader
      BY <1>7 DEF ReloadOpens, TypeOK, Phases
    <3>7. opened'[reader'] = opened[reader]
      BY <2>1, <3>6, OpenFileFacts
    <3>8. Stats'
      BY <1>7, <2>1, <3>4, <3>5, <3>7, OpenFileFacts DEF ReloadOpens, Phases, Stats
    <3> QED BY <3>1, <3>2, <3>3, <3>8
  <2>2. CASE ~Openable /\ pc' = "serving" /\ info' = 0 /\ UNCHANGED <<opened, open, spare>>
    BY <1>7, <2>2 DEF ReloadOpens, TypeOK, Phases, Using, Stats, Unlocked, Versions
  <2> QED BY <1>7, <2>1, <2>2 DEF ReloadOpens
<1>8. CASE ReloadSwaps
  BY <1>8 DEF ReloadSwaps, Swap, TypeOK, Phases, Using, Stats, Unlocked, Versions
<1>9. CASE ReloadCloses
  BY <1>9 DEF ReloadCloses, TypeOK, Phases, Using, Stats, Unlocked, Versions
<1>10. CASE WatchEnds
  BY <1>10 DEF WatchEnds, TypeOK, Phases, Using, Stats, Unlocked, Versions
<1>11. CASE Close
  BY <1>11 DEF Close, TypeOK, Phases, Using, Stats, Unlocked, Versions
<1>12. CASE UNCHANGED vars
  BY <1>12 DEF vars, TypeOK, Phases, Using, Stats, Unlocked, Versions
<1> QED BY <1>1, <1>2, <1>3, <1>4, <1>5, <1>6, <1>7, <1>8, <1>9, <1>10, <1>11, <1>12
        DEF Next, ReloadStep

LEMMA SpecIInv == Spec => []IInv
  BY InitIInv, NextIInv, PTL DEF Spec

-----------------------------------------------------------------------------
\* The resolver's fields are well-formed; in particular there is a FileInfo for
\* ReloadIfChanged to compare with whenever there is a reader.
THEOREM TypeCorrect == Spec => []TypeOK
<1>1. IInv => TypeOK
  BY DEF IInv
<1> QED BY <1>1, SpecIInv, PTL

\* No Lookup works on a reader that ReloadIfChanged or Close has closed.
THEOREM SafeLookups == Spec => []NoUseAfterClose
<1>1. IInv => NoUseAfterClose
  BY DEF IInv, TypeOK, Phases, Using, Unlocked, NoUseAfterClose
<1> QED BY <1>1, SpecIInv, PTL

\* New, ReloadIfChanged and Close leave no reader open but the one in use.
THEOREM LeakFree == Spec => []NoLeak
<1>1. IInv => NoLeak
  BY DEF IInv, Phases, NoLeak
<1> QED BY <1>1, SpecIInv, PTL

\* Whatever happens to the file during a reload, the recorded FileInfo is not newer
\* than the database in use: a later check still sees the difference.
THEOREM ReloadsKeepOrder == Spec => []InfoNotNewer
<1>1. IInv => InfoNotNewer
  BY DEF IInv, Stats, InfoNotNewer, Served
<1> QED BY <1>1, SpecIInv, PTL
=============================================================================
