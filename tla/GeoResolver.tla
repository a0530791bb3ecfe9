----------------------------- MODULE GeoResolver -----------------------------
(***************************************************************************)
(* internal/geo: the GeoIP database, opened when the process starts and    *)
(* looked up by request handlers while watchGeoIP in main.go replaces it   *)
(* when the file at its path has changed.  The file belongs to somebody    *)
(* else and may be replaced between any two steps.                         *)
(*                                                                         *)
(* A version of the file stands for its inode, size and modification time; *)
(* a reader is a handle numbered in the order of opening.                  *)
(***************************************************************************)
EXTENDS Integers, Sequences

CONSTANTS MaxVersion,  \* bound: the last version of the file
          Absent,      \* versions during which there is no file at the path
          Broken,      \* versions that maxminddb.Open refuses
          Lookups      \* bound: handlers looking up at the same time

\* The process is started, and the file is left, with a readable database.
ASSUME GeoResolverAssumption ==
  /\ MaxVersion \in Nat \ {0}
  /\ Absent \subseteq 2..MaxVersion - 1
  /\ Broken \subseteq 2..MaxVersion - 1

VARIABLES file,      \* external: the version at the path
          pc,        \* "open", "stat" (New), "serving", "reopen", "swap",
                     \* "close" (ReloadIfChanged), "stopped", "closed", "failed"
          opened,    \* history: the version behind each handle
          open,      \* the handles that are not closed
          reader,    \* maxMindResolver.reader, 0 before New returns
          fileInfo,  \* maxMindResolver.fileInfo
          info,      \* New, ReloadIfChanged: what os.Stat returned
          spare,     \* New, ReloadIfChanged: the handle not, or no more, in use
          using,     \* the handle each Lookup works on under RLock, or 0
          newRaced   \* history: the file was replaced between New's two steps

vars == <<file, pc, opened, open, reader, fileInfo, info, spare, using, newRaced>>

Versions == 1..MaxVersion
Handles == 1..Len(opened)

Init ==
  /\ file = 1 /\ pc = "open"
  /\ opened = <<>> /\ open = {}
  /\ reader = 0 /\ fileInfo = 0 /\ info = 0 /\ spare = 0
  /\ using = [l \in Lookups |-> 0]
  /\ newRaced = FALSE

\* External: the file is replaced, removed or damaged.
Replace ==
  /\ file < MaxVersion
  /\ file' = file + 1
  /\ newRaced' = (newRaced \/ pc = "stat")
  /\ UNCHANGED <<pc, opened, open, reader, fileInfo, info, spare, using>>

\* maxminddb.Open of the path.
Openable == file \notin Absent \cup Broken
OpenFile ==
  /\ opened' = Append(opened, file)
  /\ spare' = Len(opened) + 1
  /\ open' = open \cup {Len(opened) + 1}

\* New: Open, then Stat.
NewOpens ==
  /\ pc = "open"
  /\ \/ Openable /\ OpenFile /\ pc' = "stat"
     \/ ~Openable /\ pc' = "failed" /\ UNCHANGED <<opened, open, spare>>
  /\ UNCHANGED <<file, reader, fileInfo, info, using, newRaced>>

NewStats ==
  /\ pc = "stat"
  /\ \/ /\ file \notin Absent
        /\ reader' = spare /\ fileInfo' = file /\ pc' = "serving"
        /\ UNCHANGED open
     \/ /\ file \in Absent
        /\ open' = open \ {spare} /\ pc' = "failed"
        /\ UNCHANGED <<reader, fileInfo>>
  /\ spare' = 0
  /\ UNCHANGED <<file, opened, info, using, newRaced>>

-----------------------------------------------------------------------------
\* Lookup holds the read lock while it works on the reader.  sync.RWMutex lets
\* no reader in while a writer waits; a closed reader answers with an error.
LookupBegins(l) ==
  /\ using[l] = 0 /\ reader # 0 /\ pc \notin {"swap", "closed"}
  /\ using' = [using EXCEPT ![l] = reader]
  /\ UNCHANGED <<file, pc, opened, open, reader, fileInfo, info, spare, newRaced>>

LookupEnds(l) ==
  /\ using[l] # 0
  /\ using' = [using EXCEPT ![l] = 0]
  /\ UNCHANGED <<file, pc, opened, open, reader, fileInfo, info, spare, newRaced>>

\* mu.Lock() waits for the lookups.
Unlocked == \A l \in Lookups : using[l] = 0

-----------------------------------------------------------------------------
\* Midnight: ReloadIfChanged stats the file and compares; a missing file is an
\* error that is logged.
ReloadStats ==
  /\ pc = "serving"
  /\ file \notin Absent /\ file # fileInfo
  /\ info' = file /\ pc' = "reopen"
  /\ UNCHANGED <<file, opened, open, reader, fileInfo, spare, using, newRaced>>

ReloadOpens ==
  /\ pc = "reopen"
  /\ \/ Openable /\ OpenFile /\ pc' = "swap" /\ UNCHANGED info
     \/ ~Openable /\ pc' = "serving" /\ info' = 0 /\ UNCHANGED <<opened, open, spare>>
  /\ UNCHANGED <<file, reader, fileInfo, using, newRaced>>

Swap(stat) ==
  /\ pc = "swap"
  /\ reader' = spare /\ spare' = reader
  /\ fileInfo' = stat /\ info' = 0
  /\ pc' = "close"
  /\ UNCHANGED <<file, opened, open, using, newRaced>>

\* A slip: the reader is replaced without the write lock.
ReloadSwapsUnlocked == Swap(info)

\* A slip: the file is described by a Stat made after it was opened.
ReloadSwapsLateStat == Unlocked /\ Swap(file)

ReloadSwaps == Unlocked /\ Swap(info)

\* A slip: the previous reader is not closed.
ReloadLeaks ==
  /\ pc = "close"
  /\ spare' = 0 /\ pc' = "serving"
  /\ UNCHANGED <<file, opened, open, reader, fileInfo, info, using, newRaced>>

\* oldReader.Close(), after the lock was released.
ReloadCloses ==
  /\ pc = "close"
  /\ open' = open \ {spare}
  /\ spare' = 0 /\ pc' = "serving"
  /\ UNCHANGED <<file, opened, reader, fileInfo, info, using, newRaced>>

\* The process stops: watchGeoIP returns and main closes the resolver.
WatchEnds ==
  /\ pc = "serving"
  /\ pc' = "stopped"
  /\ UNCHANGED <<file, opened, open, reader, fileInfo, info, spare, using, newRaced>>

Close ==
  /\ pc = "stopped" /\ Unlocked
  /\ open' = open \ {reader}
  /\ pc' = "closed"
  /\ UNCHANGED <<file, opened, reader, fileInfo, info, spare, using, newRaced>>

ReloadStep == ReloadStats \/ ReloadOpens \/ ReloadSwaps \/ ReloadCloses

Next ==
  \/ Replace
  \/ NewOpens \/ NewStats
  \/ \E l \in Lookups : LookupBegins(l) \/ LookupEnds(l)
  \/ ReloadStep
  \/ WatchEnds \/ Close

Spec == Init /\ [][Next]_vars

\* Midnight comes every day, a lookup ends and the goroutines keep running.
Fairness ==
  /\ WF_vars(NewOpens \/ NewStats)
  /\ WF_vars(ReloadStep)
  /\ \A l \in Lookups : WF_vars(LookupEnds(l))

FairSpec == Spec /\ Fairness

-----------------------------------------------------------------------------
\* The version of the database that lookups are answered from.
Served == IF reader = 0 THEN 0 ELSE opened[reader]

\* Type invariant of the resolver; a reader in use always has its FileInfo, which
\* ReloadIfChanged dereferences.
TypeOK ==
  /\ reader # 0 => fileInfo # 0
  /\ file \in Versions
  /\ pc \in {"open", "stat", "serving", "reopen", "swap", "close", "stopped",
             "closed", "failed"}
  /\ opened \in Seq(Versions)
  /\ open \subseteq Handles
  /\ {reader, spare} \subseteq Handles \cup {0}
  /\ {fileInfo, info} \subseteq Versions \cup {0}
  /\ using \in [Lookups -> Handles \cup {0}]
  /\ newRaced \in BOOLEAN

\* No lookup works on a database that is closed, and unmapped, under it.
NoUseAfterClose ==
  \A l \in Lookups : using[l] # 0 => using[l] \in open

\* No handle leaks: between reloads exactly the reader in use is open, and none
\* is left when New fails or the resolver is closed.
NoLeak ==
  /\ pc \in {"serving", "stopped"} => open = {reader}
  /\ pc \in {"failed", "closed"} => open = {}

\* The recorded FileInfo is never of a newer file than the database in use, else
\* the next check would take the old database for the current one.  It holds
\* after every reload because ReloadIfChanged stats the file before it opens it.
InfoNotNewer == reader # 0 /\ ~newRaced => fileInfo <= Served

\* A replaced database comes into use while the process runs.
ReplacementServed ==
  (pc \notin {"failed", "stopped", "closed"} /\ file = MaxVersion)
    ~> (Served = MaxVersion \/ newRaced \/ pc \in {"failed", "stopped", "closed"})

\* README.md:229: "The collector checks for a replaced GeoIP database once per
\* day at midnight UTC and reloads it": no replacement goes unnoticed.
ReplacementNoticed ==
  (pc = "serving" /\ file = MaxVersion)
    ~> (Served = MaxVersion \/ pc \in {"stopped", "closed"})
=============================================================================
