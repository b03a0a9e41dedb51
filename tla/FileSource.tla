----------------------------- MODULE FileSource -----------------------------
(***************************************************************************)
(* A router that takes its configuration from files                        *)
(* (cmd/routed/src/snapshot_source.rs): FileSource compiles resource files *)
(* itself, CompiledFileSource loads the one snapshot file of the operator's*)
(* ConfigMap.  Both load at startup and then poll a fingerprint of the     *)
(* modification times.  The files change between any two reads.            *)
(***************************************************************************)
EXTENDS Naturals, FiniteSets

CONSTANTS
  Files,        \* the files are 1..Files, in the order they are read; a
                \* CompiledFileSource reads the first only
  Content,      \* what a file may say
  Bad,          \* the contents that do not parse or compile
  MaxTime,      \* bound on the number of changes to the files
  Absent        \* no such file, or no snapshot

File == 1..Files

ASSUME FileAssumption ==
  /\ Files \in Nat \ {0}
  /\ Bad \subseteq Content
  /\ MaxTime \in Nat \ {0}
  /\ Absent \notin Content /\ Absent \notin [File -> Content \cup {Absent}]

VARIABLES
  compiled, \* TRUE for CompiledFileSource, FALSE for FileSource: never changes
  disk,    \* per file: content and modification time, or Absent
  clock,   \* the last modification time given out
  phase,   \* where the task stands
  todo,    \* the files the current load has still to read
  got,     \* what the current load has read so far
  last,    \* the fingerprint of the last load
  early,   \* history: whether a change fell between a first load and its watch
  held     \* SnapshotHolder::current: what it was compiled from, or Absent

fileVars == <<compiled, disk, clock, phase, todo, got, last, early, held>>

Present == {f \in File : disk[f] # Absent}
Nothing == [f \in File |-> Absent]

(* The files as one load would see them if nothing moved. *)
OnDisk == [f \in File |-> IF disk[f] = Absent THEN Absent ELSE disk[f].content]

(* What a load makes of the contents it read: a snapshot, known by them. *)
Loads(contents) ==
  /\ \A f \in File : contents[f] \notin Bad
  /\ compiled => contents # Nothing

(* A plausible bug: only the number of files is looked at. *)
FingerprintByCount == <<Cardinality(Present), 0>>

(* How many files, and the newest modification time.  Abstracted: the files *)
(* are examined one by one in the code, and two changes within the clock's  *)
(* granularity share a time, so that a poll may miss the second.            *)
Fingerprint ==
  <<Cardinality(Present),
    IF Present = {} THEN 0
    ELSE CHOOSE t \in {disk[f].mtime : f \in Present} :
           \A f \in Present : disk[f].mtime <= t>>

FilesInit ==
  /\ compiled \in BOOLEAN
  /\ disk \in [File -> {Absent} \cup {[content |-> c, mtime |-> 1] : c \in Content}]
  /\ compiled => Present \subseteq {1}
  /\ clock = 1
  /\ phase = "boot"
  /\ todo = {}
  /\ got = Nothing
  /\ last = <<0, 0>>
  /\ early = FALSE
  /\ held = Absent

----------------------------------------------------------------------------
(* Whoever writes the files: one write gives one file a new time.  A file  *)
(* saved in two steps is bad in between.  A change between the start-up    *)
(* load and the first fingerprint of the watch is remembered as early: the *)
(* watch takes it for loaded.                                              *)

Changed ==
  /\ clock < MaxTime
  /\ clock' = clock + 1
  /\ early' = (early \/ phase \in {"load", "loaded"})

Save(f) ==
  /\ Changed
  /\ compiled => f = 1
  /\ \E c \in Content : disk' = [disk EXCEPT ![f] = [content |-> c, mtime |-> clock']]
  /\ UNCHANGED <<compiled, phase, todo, got, last, held>>

Remove(f) ==
  /\ Changed
  /\ disk[f] # Absent
  /\ disk' = [disk EXCEPT ![f] = Absent]
  /\ UNCHANGED <<compiled, phase, todo, got, last, held>>

----------------------------------------------------------------------------
(* Loading *)

BeginLoad(during) ==
  /\ phase' = during
  /\ todo' = Present
  /\ got' = Nothing
  /\ early' = FALSE

(* serve() loads before it spawns the watch. *)
Boot ==
  /\ phase = "boot"
  /\ BeginLoad("load")
  /\ UNCHANGED <<compiled, disk, clock, last, held>>

Loading == phase \in {"load", "reload"}

(* A plausible bug: the fingerprint is taken again when the load is over. *)
EndLoadRemembers(snapshot) ==
  /\ phase' = IF phase = "reload" THEN "sleep"
              ELSE IF snapshot = Absent /\ ~compiled THEN "exited" ELSE "loaded"
  /\ held' = IF snapshot = Absent THEN held ELSE snapshot
  /\ todo' = {}
  /\ got' = Nothing
  /\ last' = Fingerprint
  /\ UNCHANGED <<compiled, early, disk, clock>>

(* A first load that fails ends the process unless a compiled file is polled *)
(* for; a later one keeps the previous snapshot.                             *)
EndLoad(snapshot) ==
  /\ phase' = IF phase = "reload" THEN "sleep"
              ELSE IF snapshot = Absent /\ ~compiled THEN "exited" ELSE "loaded"
  /\ held' = IF snapshot = Absent THEN held ELSE snapshot
  /\ todo' = {}
  /\ got' = Nothing
  /\ UNCHANGED <<compiled, early, disk, clock, last>>

ReadFile(f) ==
  /\ Loading
  /\ f \in todo
  /\ \A g \in todo : f <= g
  /\ disk[f] # Absent
  /\ todo' = todo \ {f}
  /\ got' = [got EXCEPT ![f] = disk[f].content]
  /\ UNCHANGED <<compiled, early, disk, clock, phase, last, held>>

(* A listed file is gone by the time it is read. *)
ReadFails(f) ==
  /\ Loading
  /\ f \in todo
  /\ \A g \in todo : f <= g
  /\ disk[f] = Absent
  /\ EndLoad(Absent)

FinishLoad ==
  /\ Loading
  /\ todo = {}
  /\ EndLoad(IF Loads(got) THEN got ELSE Absent)

----------------------------------------------------------------------------
(* Watching *)

StartWatch ==
  /\ phase = "loaded"
  /\ last' = Fingerprint
  /\ phase' = "sleep"
  /\ UNCHANGED <<compiled, early, disk, clock, todo, got, held>>

(* A changed fingerprint is remembered before the load; an empty holder makes *)
(* CompiledFileSource try again.                                              *)
Poll ==
  /\ phase = "sleep"
  /\ Fingerprint # last \/ (compiled /\ held = Absent)
  /\ last' = Fingerprint
  /\ BeginLoad("reload")
  /\ UNCHANGED <<compiled, disk, clock, held>>

(* The supervisor starts an exited router again. *)
Restart ==
  /\ phase = "exited"
  /\ phase' = "boot"
  /\ last' = <<0, 0>>
  /\ UNCHANGED <<compiled, early, disk, clock, todo, got, held>>

Task ==
  \/ Boot \/ StartWatch \/ Poll \/ FinishLoad
  \/ \E f \in File : ReadFile(f) \/ ReadFails(f)

FilesNext ==
  \/ Task \/ Restart
  \/ \E f \in File : Save(f) \/ Remove(f)

FilesSpec == FilesInit /\ [][FilesNext]_fileVars

FairFilesSpec == FilesSpec /\ WF_fileVars(Task) /\ WF_fileVars(Restart)

----------------------------------------------------------------------------
(* Properties *)

FilesTypeOK ==
  /\ compiled \in BOOLEAN
  /\ disk \in [File -> {Absent} \cup [content : Content, mtime : 1..MaxTime]]
  /\ clock \in 1..MaxTime
  /\ phase \in {"boot", "load", "loaded", "exited", "sleep", "reload"}
  /\ todo \subseteq File
  /\ got \in [File -> Content \cup {Absent}]
  /\ last \in (0..Files) \X (0..MaxTime)
  /\ early \in BOOLEAN
  /\ held = Absent \/ held \in [File -> Content \cup {Absent}]

(* The router settles on what the files say, once they say something that    *)
(* loads, although one load may mix states of the files and saves, removals  *)
(* and failed loads interleave with the polls (snapshot_source.rs 3-6).  The *)
(* exception is a change between the start-up load and the watch, which is   *)
(* read with the next change only.                                           *)
FilesConverge == <>[]((Loads(OnDisk) /\ ~early) => held = OnDisk)

(* A watcher at rest whose fingerprint is up to date holds what is on disk,  *)
(* whenever that loads: no torn or failed load is mistaken for the last one. *)
AtRestCurrent ==
  (phase = "sleep" /\ last = Fingerprint /\ Loads(OnDisk) /\ ~early)
    => held = OnDisk
=============================================================================
