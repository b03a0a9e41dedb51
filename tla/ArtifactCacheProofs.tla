------------------------- MODULE ArtifactCacheProofs -------------------------
(***************************************************************************)
(* What holds of ArtifactCache for any number of processes, artifacts and  *)
(* faults.  The invariant says what is in the directory at any moment (a   *)
(* file is whole or torn, and a record names the layer or is torn) and     *)
(* what each stage implies of the process that is in it.                   *)
(***************************************************************************)
EXTENDS ArtifactCache, TLAPS

\* b is what belongs into the cache under d
Whole(d, b) == IF d \in Blobs THEN b = d ELSE Layers[d] = <<b>>

Cache ==
    /\ \A d \in Pins : entry[d] \in {None, Torn} \/ Whole(d, entry[d])
    /\ \A m \in Manifests : record[m] \in {None, Torn} \/ Whole(m, record[m])

\* What a process verified, and still has
Verified == {"open", "write", "rename", "note", "noted"}

Held(p) ==
    /\ stage[p] # "idle" => ref[p].scheme = "file" \/ ref[p].pin \in Pins
    /\ stage[p] \notin {"idle", "have"} => ref[p].scheme # "file"
    /\ stage[p] \in {"compare", "manifest", "signatures", "note", "noted"} =>
          ref[p].scheme = "oci"
    /\ stage[p] = "compare" => body[p] = Torn \/ Whole(ref[p].pin, body[p])
    /\ stage[p] \in Verified => Whole(ref[p].pin, body[p])
    /\ stage[p] = "rename" => tmp[ref[p].pin][Pid[p]] = body[p]
    /\ stage[p] \in {"note", "noted"} =>
          Whole(ref[p].pin, entry[ref[p].pin])
    /\ stage[p] = "have" => Pinned(ref[p], AtPath(ref[p]))

Inv ==
    /\ TypeOK
    /\ Cache
    /\ \A p \in Procs : Held(p)

-----------------------------------------------------------------------------
(* Facts about references and contents.                                    *)

\* A remote reference pins what belongs under its pin.
LEMMA PinnedIsWhole ==
    ASSUME NEW r \in ArtifactRef, NEW b, r.scheme # "file", r.pin \in Pins
    PROVE  /\ r.pin \in Blobs <=> r.scheme = "http"
           /\ Pinned(r, b) <=> Whole(r.pin, b)
<1>1. CASE r.scheme = "http"
  <2>1. r.pin \in Blobs
    BY <1>1, DataAssumption DEF ArtifactRef, Pins
  <2>2. r.pin # None
    BY <2>1, DataAssumption
  <2> QED
    BY <1>1, <2>1, <2>2 DEF Pinned, Whole
<1>2. CASE r.scheme = "oci"
  <2>1. r.pin \in Manifests /\ r.pin \notin Blobs
    BY <1>2, DataAssumption DEF ArtifactRef, Pins
  <2>2. r.pin # None
    BY <2>1, DataAssumption
  <2> QED
    BY <1>2, <2>1, <2>2 DEF Pinned, Whole
<1> QED
  BY <1>1, <1>2 DEF ArtifactRef

\* What belongs under a digest is an artifact, and nothing else does.
LEMMA WholeIsOne ==
    ASSUME NEW d \in Pins, NEW b, NEW c, Whole(d, b), Whole(d, c)
    PROVE  b = c /\ b \in Blobs /\ b \notin {None, Torn}
<1>1. CASE d \in Blobs
  BY <1>1, DataAssumption DEF Whole
<1>2. CASE d \notin Blobs
  <2>1. d \in Manifests /\ Layers[d] \in Seq(Blobs)
    BY <1>2, LayersAssumption DEF Pins
  <2>2. Layers[d] = <<b>> /\ Layers[d] = <<c>>
    BY <1>2 DEF Whole
  <2>3. <<b>>[1] = b /\ <<c>>[1] = c /\ Len(<<b>>) = 1
    OBVIOUS
  <2>4. b = c
    BY <2>2, <2>3
  <2>5. Layers[d][1] \in Blobs
    BY <2>1, <2>2, <2>3
  <2> QED
    BY <2>2, <2>3, <2>4, <2>5, DataAssumption
<1> QED
  BY <1>1, <1>2

LEMMA StartsRight == Init => Inv
<1> SUFFICES ASSUME Init PROVE Inv
  OBVIOUS
<1>1. \A d \in Pins : entry[d] = None /\ record[d] = None
  BY DEF Init
<1>2. \A p \in Procs : stage[p] = "idle"
  BY DEF Init
<1>3. Nothing \in ArtifactRef
  BY DEF Nothing, ArtifactRef
<1>4. TypeOK
  <2>1. cosign \in [Procs -> Cosign]
    BY DeploymentsAssumption DEF Init
  <2>2. faults \in 0..MaxFaults
    BY FaultsAssumption DEF Init
  <2> QED
    BY <1>3, <2>1, <2>2 DEF Init, TypeOK, Stage
<1>5. Cache
  BY <1>1 DEF Cache, Pins
<1>6. \A p \in Procs : Held(p)
  BY <1>2 DEF Held, Verified
<1> QED
  BY <1>4, <1>5, <1>6 DEF Inv

-----------------------------------------------------------------------------
(* Types.                                                                  *)

\* A step of a process keeps the types.
LEMMA TypesProceed ==
    ASSUME TypeOK, NEW p \in Procs, Held(p), Proceed(p) \/ Fetch(p)
    PROVE  TypeOK'
<1>1. Nothing \in ArtifactRef
  BY DEF Nothing, ArtifactRef
<1>2. Blobs \subseteq Bytes /\ Torn \in Bytes
  BY DEF Bytes, Pins
<1>3. Pid[p] \in Pids
  BY DEF Pids
<1> USE <1>1, <1>2, <1>3 DEF TypeOK, Goto, Static, disk, Stage
<1>4. ASSUME Fail(p), Static PROVE TypeOK'
  BY <1>4 DEF Fail, Leave
<1>5. ASSUME ToLayer(p), Static PROVE TypeOK'
  BY <1>5, <1>4 DEF ToLayer
<1>6. CASE Look(p)
  <2>1. CASE ref[p].scheme = "http"
    BY <1>6, <2>1 DEF Look
  <2>2. CASE ref[p].scheme # "http"
    <3>1. record[ref[p].pin] \in Bytes \union {None}
      BY <1>6 DEF Look, Held
    <3> QED
      BY <1>6, <2>2, <3>1 DEF Look
  <2> QED
    BY <2>1, <2>2
<1>7. CASE Compare(p)
  BY <1>7 DEF Compare
<1>8. CASE FetchFails(p)
  BY <1>8, <1>4 DEF FetchFails
<1>9. CASE Unauthorised(p)
  BY <1>9 DEF Unauthorised
<1>10. CASE \E bytes \in Bytes : GetManifest(p, bytes)
  BY <1>10, <1>4, <1>5 DEF GetManifest
<1>11. CASE \E sigs \in SignatureSets : GetSignatures(p, sigs)
  BY <1>11, <1>4, <1>5 DEF GetSignatures
<1>12. CASE \E bytes \in Bytes : GetBlob(p, bytes)
  BY <1>12, <1>4 DEF GetBlob
<1>13. CASE OpenTmp(p)
  BY <1>13 DEF OpenTmp, SetTmp
<1>14. CASE WriteTmp(p)
  BY <1>14 DEF WriteTmp, SetTmp
<1>15. CASE Rename(p)
  <2>1. ref[p].pin \in Pins
    BY <1>15 DEF Rename, Held
  <2>2. tmp[ref[p].pin][Pid[p]] \in Bytes \union {None}
    BY <2>1
  <2> QED
    BY <1>15, <2>2 DEF Rename, SetTmp
<1>16. CASE OpenRecord(p)
  BY <1>16 DEF OpenRecord
<1>17. CASE WriteRecord(p)
  <2>1. body[p] \in Blobs
    BY <1>17, WholeIsOne DEF WriteRecord, Held, Verified
  <2> QED
    BY <1>17, <2>1 DEF WriteRecord
<1>18. CASE Use(p)
  BY <1>18 DEF Use, Leave
<1> QED
  BY <1>6, <1>7, <1>8, <1>9, <1>10, <1>11, <1>12, <1>13, <1>14, <1>15, <1>16,
     <1>17, <1>18 DEF Proceed, Fetch

\* So do the environment's steps.
LEMMA TypesEnvironment ==
    ASSUME TypeOK,
           \/ \E p \in Procs, r \in ArtifactRef : Resolve(p, r)
           \/ \E p \in Procs : ReadFails(p) \/ WriteFails(p)
           \/ \E p \in Procs : Crash(p)
           \/ \E entries, records \in SUBSET Cached :
                 PowerLoss(entries, records)
    PROVE  TypeOK'
<1>1. Nothing \in ArtifactRef
  BY DEF Nothing, ArtifactRef
<1>2. Torn \in Bytes
  BY DEF Bytes
<1>3. Fault => faults' \in 0..MaxFaults /\ cosign' \in [Procs -> Cosign]
  BY FaultsAssumption DEF Fault, TypeOK
<1> USE <1>1, <1>2, <1>3 DEF Goto, Static, disk, Stage, Leave, Fail
<1>4. CASE \E p \in Procs, r \in ArtifactRef : Resolve(p, r)
  <2>1. PICK p \in Procs, r \in ArtifactRef : Resolve(p, r)
    BY <1>4
  <2>2. CASE ~Parses(r) \/ (r.scheme = "file" /\ r.pin \notin {None, Local})
    BY <2>1, <2>2 DEF Resolve, TypeOK
  <2>3. CASE ~(~Parses(r) \/ (r.scheme = "file" /\ r.pin \notin {None, Local}))
    <3>1. stage' \in [Procs -> Stage]
      BY <2>1, <2>3 DEF Resolve, TypeOK
    <3> QED
      BY <2>1, <2>3, <3>1 DEF Resolve, TypeOK
  <2> QED
    BY <2>2, <2>3
<1>5. CASE \E p \in Procs : WriteFails(p)
  BY <1>5 DEF WriteFails, TypeOK
<1>8. CASE \E p \in Procs : ReadFails(p)
  <2>1. PICK p \in Procs : ReadFails(p)
    BY <1>8
  <2>2. CASE Fail(p)
    BY <2>1, <2>2 DEF ReadFails, TypeOK
  <2>3. CASE ~Fail(p)
    <3>1. /\ stage' = [stage EXCEPT ![p] = "manifest"]
          /\ UNCHANGED <<entry, record, tmp, ref, body, token>>
          /\ Fault
      BY <2>1, <2>3 DEF ReadFails
    <3> QED
      BY <3>1 DEF TypeOK
  <2> QED
    BY <2>2, <2>3
<1>6. CASE \E p \in Procs : Crash(p)
  BY <1>6 DEF Crash, TypeOK
<1>7. CASE \E entries, records \in SUBSET Cached : PowerLoss(entries, records)
  BY <1>7 DEF PowerLoss, Tear, TypeOK
<1> QED
  BY <1>4, <1>5, <1>6, <1>7, <1>8

-----------------------------------------------------------------------------
(* A step of one process does not disturb another.                         *)

\* Other processes keep their state; of the files under p's pin only p's own
\* temporary file, the entry and the record change, and what they change to
\* is what belongs there, or a record that is being written.
Aside(p) ==
    /\ \A q \in Procs \ {p} : /\ stage'[q] = stage[q]
                              /\ ref'[q] = ref[q]
                              /\ body'[q] = body[q]
    /\ \A d \in Pins, i \in Pids : i # Pid[p] => tmp'[d][i] = tmp[d][i]
    /\ \A d \in Pins : entry'[d] = entry[d] \/ Whole(d, entry'[d])
    /\ \A m \in Manifests :
          record'[m] \in {record[m], Torn} \/ Whole(m, record'[m])

LEMMA OthersKeep ==
    ASSUME TypeOK, NEW p \in Procs, NEW q \in Procs, p # q, Aside(p), Held(q)
    PROVE  Held(q)'
<1>1. stage'[q] = stage[q] /\ ref'[q] = ref[q] /\ body'[q] = body[q]
  BY DEF Aside
<1>2. Pid[q] # Pid[p] /\ Pid[q] \in Pids
  BY PidsDiffer DEF Pids
<1>3. ref[q] \in ArtifactRef
  BY DEF TypeOK
<1>4. stage[q] = "rename" => tmp'[ref[q].pin][Pid[q]] = body[q]
  BY <1>2 DEF Held, Aside
<1>5. ASSUME stage[q] \in {"note", "noted"}
      PROVE  Whole(ref[q].pin, entry'[ref[q].pin])
  BY <1>5 DEF Held, Aside
<1>6. ASSUME stage[q] = "have" PROVE Pinned(ref[q], AtPath(ref[q])')
  <2>1. CASE ref[q].scheme = "file"
    BY <1>6, <1>1, <2>1 DEF Held, AtPath
  <2>2. CASE ref[q].scheme # "file"
    <3>1. Pinned(ref[q], entry[ref[q].pin])
      BY <1>6, <2>2 DEF Held, AtPath
    <3>2. ref[q].pin \in Pins
      BY <1>6, <2>2 DEF Held
    <3>3. Pinned(ref[q], entry'[ref[q].pin])
      BY <1>3, <2>2, <3>1, <3>2, PinnedIsWhole DEF Aside
    <3> QED
      BY <1>1, <2>2, <3>3 DEF AtPath
  <2> QED
    BY <2>1, <2>2
<1> QED
  BY <1>1, <1>4, <1>5, <1>6 DEF Held

-----------------------------------------------------------------------------
(* The steps, one by one: what is in the cache, what the process that      *)
(* moves holds, and that it leaves the others aside.                       *)

\* What a step of p owes the invariant.
Owed(p) == Cache' /\ Held(p)' /\ Aside(p)

\* A step that writes no file owes what p holds in its next stage.
LEMMA NoWrite ==
    ASSUME Inv, NEW p \in Procs, UNCHANGED disk, Held(p)',
           \A q \in Procs \ {p} : /\ stage'[q] = stage[q]
                                 /\ ref'[q] = ref[q]
                                 /\ body'[q] = body[q]
    PROVE  Owed(p)
BY DEF Owed, Cache, Aside, disk, Inv, Whole

\* An error gives up what was held.
LEMMA FailOwes ==
    ASSUME Inv, NEW p \in Procs, Fail(p)
    PROVE  Owed(p)
<1>1. stage'[p] = "idle"
  BY DEF Fail, Leave, Goto, Inv, TypeOK
<1>2. Held(p)'
  BY <1>1 DEF Held, Verified
<1>3. \A q \in Procs \ {p} : /\ stage'[q] = stage[q]
                            /\ ref'[q] = ref[q]
                            /\ body'[q] = body[q]
  BY DEF Fail, Leave, Goto, Inv, TypeOK
<1> QED
  BY <1>2, <1>3, NoWrite DEF Fail

\* Starting, and looking into the cache: what is found is compared with what
\* belongs there before it is handed out.
LEMMA ResolveOwes ==
    ASSUME Inv, NEW p \in Procs, NEW r \in ArtifactRef, Resolve(p, r)
    PROVE  Owed(p)
<1>1. CASE ~Parses(r) \/ (r.scheme = "file" /\ r.pin \notin {None, Local})
  BY <1>1, FailOwes DEF Resolve
<1>2. CASE ~(~Parses(r) \/ (r.scheme = "file" /\ r.pin \notin {None, Local}))
  <2>1. /\ stage'[p] = IF r.scheme = "file" THEN "have" ELSE "look"
        /\ ref'[p] = r
        /\ UNCHANGED <<disk, body>>
    BY <1>2 DEF Resolve, Goto, Inv, TypeOK
  <2>2. r.scheme = "file" => r.pin \in {None, Local}
    BY <1>2
  <2>3. r.scheme # "file" => r.pin \in Pins
    BY <1>2 DEF Parses, ArtifactRef, Pins
  <2>4. Held(p)'
    BY <2>1, <2>2, <2>3 DEF Held, Verified, Pinned, AtPath
  <2>5. \A q \in Procs \ {p} : /\ stage'[q] = stage[q]
                              /\ ref'[q] = ref[q]
                              /\ body'[q] = body[q]
    BY <1>2 DEF Resolve, Goto, Inv, TypeOK
  <2> QED
    BY <2>1, <2>4, <2>5, NoWrite
<1> QED
  BY <1>1, <1>2

LEMMA LookOwes ==
    ASSUME Inv, NEW p \in Procs, Look(p)
    PROVE  Owed(p)
<1>1. /\ ref[p] \in ArtifactRef /\ ref[p].scheme # "file"
      /\ ref[p].pin \in Pins
  BY DEF Look, Inv, Held, TypeOK
<1>2. UNCHANGED <<disk, ref>>
  BY DEF Look
<1>3. \A q \in Procs \ {p} : /\ stage'[q] = stage[q]
                            /\ ref'[q] = ref[q]
                            /\ body'[q] = body[q]
  BY DEF Look, Goto, Inv, TypeOK
<1>4. CASE ref[p].scheme = "http"
  <2>1. ref[p].pin \in Blobs
    BY <1>1, <1>4, PinnedIsWhole
  <2>2. stage'[p] = IF entry[ref[p].pin] = ref[p].pin THEN "have" ELSE "blob"
    BY <1>4 DEF Look, Goto, Inv, TypeOK
  <2>3. Held(p)'
    BY <1>1, <1>2, <1>4, <2>1, <2>2
    DEF Held, Verified, Pinned, AtPath, disk
  <2> QED
    BY <1>2, <1>3, <2>3, NoWrite
<1>5. CASE ref[p].scheme = "oci"
  <2>1. ref[p].pin \in Manifests
    BY <1>1, <1>5, DataAssumption DEF ArtifactRef, Pins
  <2>2. \/ stage'[p] = "manifest"
        \/ /\ stage'[p] = "compare"
           /\ body'[p] = record[ref[p].pin]
           /\ record[ref[p].pin] # None
    BY <1>5 DEF Look, Goto, Inv, TypeOK
  <2>3. record[ref[p].pin] \in {None, Torn}
           \/ Whole(ref[p].pin, record[ref[p].pin])
    BY <2>1 DEF Inv, Cache
  <2>4. Held(p)'
    BY <1>1, <1>2, <1>5, <2>2, <2>3 DEF Held, Verified, Whole
  <2> QED
    BY <1>2, <1>3, <2>4, NoWrite
<1> QED
  BY <1>1, <1>4, <1>5 DEF ArtifactRef

LEMMA ReadFailsOwes ==
    ASSUME Inv, NEW p \in Procs, ReadFails(p)
    PROVE  Owed(p)
<1>1. CASE Fail(p)
  BY <1>1, FailOwes
<1>2. CASE ~Fail(p)
  <2>1. /\ ref[p].scheme = "oci" /\ ref[p].pin \in Pins
        /\ stage'[p] = "manifest"
        /\ UNCHANGED <<disk, ref, body>>
        /\ \A q \in Procs \ {p} : stage'[q] = stage[q]
    BY <1>2 DEF ReadFails, Goto, Inv, Held, TypeOK
  <2>2. Held(p)'
    BY <2>1 DEF Held, Verified
  <2> QED
    BY <2>1, <2>2, NoWrite
<1> QED
  BY <1>1, <1>2

LEMMA CompareOwes ==
    ASSUME Inv, NEW p \in Procs, Compare(p)
    PROVE  Owed(p)
<1>1. /\ ref[p] \in ArtifactRef /\ ref[p].scheme = "oci"
      /\ ref[p].pin \in Pins
      /\ body[p] = Torn \/ Whole(ref[p].pin, body[p])
  BY DEF Compare, Inv, Held, TypeOK
<1>2. UNCHANGED <<disk, ref>>
  BY DEF Compare
<1>3. \A q \in Procs \ {p} : /\ stage'[q] = stage[q]
                            /\ ref'[q] = ref[q]
                            /\ body'[q] = body[q]
  BY DEF Compare, Goto, Inv, TypeOK
<1>4. \/ stage'[p] = "manifest"
      \/ stage'[p] = "have" /\ Whole(ref[p].pin, entry[ref[p].pin])
  BY <1>1 DEF Compare, Goto, Inv, TypeOK
<1>5. stage'[p] = "have" => Pinned(ref[p], entry[ref[p].pin])
  BY <1>1, <1>4, PinnedIsWhole
<1>6. Held(p)'
  BY <1>1, <1>2, <1>4, <1>5 DEF Held, Verified, Pinned, AtPath, disk
<1> QED
  BY <1>2, <1>3, <1>6, NoWrite

\* Fetching: a process holds nothing of what a peer sent before it hashed to
\* what belongs there.
LEMMA FetchOwes ==
    ASSUME Inv, NEW p \in Procs,
           \/ FetchFails(p)
           \/ Unauthorised(p)
           \/ \E bytes \in Bytes : GetManifest(p, bytes)
           \/ \E sigs \in SignatureSets : GetSignatures(p, sigs)
    PROVE  Owed(p)
<1>1. CASE Fail(p)
  BY <1>1, FailOwes
<1>2. CASE ~Fail(p)
  <2>1. /\ stage[p] \in Fetching
        /\ ref[p].scheme # "file" /\ ref[p].pin \in Pins
        /\ UNCHANGED <<disk, ref, body>>
        /\ \/ stage' = stage
           \/ /\ stage' = [stage EXCEPT ![p] = "signatures"]
              /\ ref[p].scheme = "oci"
           \/ stage' = [stage EXCEPT ![p] = "blob"]
    BY <1>2 DEF FetchFails, Unauthorised, GetManifest, GetSignatures, ToLayer,
                Goto, Fetching, Inv, Held
  <2>2. \A q \in Procs \ {p} : /\ stage'[q] = stage[q]
                              /\ ref'[q] = ref[q]
                              /\ body'[q] = body[q]
    BY <2>1 DEF Inv, TypeOK
  <2>3. stage'[p] \in {stage[p], "signatures", "blob"}
    BY <2>1 DEF Inv, TypeOK
  <2>4. stage'[p] = "signatures" => ref[p].scheme = "oci"
    BY <2>1 DEF Inv, TypeOK, Held
  <2>5. Held(p)'
    BY <2>1, <2>3, <2>4 DEF Held, Verified, Fetching, Inv
  <2> QED
    BY <2>1, <2>2, <2>5, NoWrite
<1> QED
  BY <1>1, <1>2

LEMMA BlobOwes ==
    ASSUME Inv, NEW p \in Procs, NEW bytes \in Bytes, GetBlob(p, bytes)
    PROVE  Owed(p)
<1>1. CASE ~Pinned(ref[p], bytes)
  BY <1>1, FailOwes DEF GetBlob
<1>2. CASE Pinned(ref[p], bytes)
  <2>1. /\ ref[p] \in ArtifactRef /\ ref[p].scheme # "file"
        /\ ref[p].pin \in Pins
    BY DEF GetBlob, Inv, Held, TypeOK
  <2>2. /\ stage'[p] = "open" /\ body'[p] = bytes
        /\ UNCHANGED <<disk, ref>>
    BY <1>2 DEF GetBlob, Goto, Inv, TypeOK
  <2>3. Whole(ref[p].pin, bytes)
    BY <1>2, <2>1, PinnedIsWhole
  <2>4. Held(p)'
    BY <2>1, <2>2, <2>3 DEF Held, Verified, Whole
  <2>5. \A q \in Procs \ {p} : /\ stage'[q] = stage[q]
                              /\ ref'[q] = ref[q]
                              /\ body'[q] = body[q]
    BY <1>2 DEF GetBlob, Goto, Inv, TypeOK
  <2> QED
    BY <2>2, <2>4, <2>5, NoWrite
<1> QED
  BY <1>1, <1>2

\* Entering the cache: what is renamed is what was verified, because no other
\* process has the same temporary file.
LEMMA TmpOwes ==
    ASSUME Inv, NEW p \in Procs, OpenTmp(p) \/ WriteTmp(p)
    PROVE  Owed(p)
<1>1. /\ ref[p].scheme # "file" /\ ref[p].pin \in Pins
      /\ Whole(ref[p].pin, body[p])
      /\ UNCHANGED <<entry, record, ref, body>>
  BY DEF OpenTmp, WriteTmp, Inv, Held, Verified
<1>2. /\ stage'[p] \in {"write", "rename"}
      /\ stage'[p] = "rename" => tmp'[ref[p].pin][Pid[p]] = body[p]
  <2>1. CASE OpenTmp(p)
    BY <2>1 DEF OpenTmp, Goto, Inv, TypeOK
  <2>2. CASE WriteTmp(p)
    <3>1. tmp' = [tmp EXCEPT ![ref[p].pin][Pid[p]] = body[p]]
      BY <2>2 DEF WriteTmp, SetTmp
    <3>2. tmp \in [Pins -> [Pids -> Bytes \union {None}]] /\ Pid[p] \in Pids
      BY DEF Inv, TypeOK, Pids
    <3>3. tmp'[ref[p].pin][Pid[p]] = body[p]
      BY <1>1, <3>1, <3>2
    <3> QED
      BY <2>2, <3>3 DEF WriteTmp, Goto, Inv, TypeOK
  <2> QED
    BY <2>1, <2>2
<1>3. Held(p)'
  BY <1>1, <1>2 DEF Held, Verified, Whole
<1>4. \A d \in Pins, i \in Pids : i # Pid[p] => tmp'[d][i] = tmp[d][i]
  <2>1. PICK b : tmp' = [tmp EXCEPT ![ref[p].pin][Pid[p]] = b]
    BY DEF OpenTmp, WriteTmp, SetTmp
  <2>2. tmp \in [Pins -> [Pids -> Bytes \union {None}]]
    BY DEF Inv, TypeOK
  <2> QED
    BY <2>1, <2>2
<1>5. \A q \in Procs \ {p} : /\ stage'[q] = stage[q]
                            /\ ref'[q] = ref[q]
                            /\ body'[q] = body[q]
  BY DEF OpenTmp, WriteTmp, Goto, Inv, TypeOK
<1> QED
  BY <1>1, <1>3, <1>4, <1>5 DEF Owed, Aside, Cache, Inv, Whole

LEMMA RenameOwes ==
    ASSUME Inv, NEW p \in Procs, Rename(p)
    PROVE  Owed(p)
<1> DEFINE d == ref[p].pin
<1>1. /\ ref[p] \in ArtifactRef /\ ref[p].scheme # "file" /\ d \in Pins
      /\ Whole(d, body[p]) /\ tmp[d][Pid[p]] = body[p]
      /\ UNCHANGED <<record, ref, body>>
  BY DEF Rename, Inv, Held, Verified, TypeOK
<1>2. entry' = [entry EXCEPT ![d] = body[p]]
  BY <1>1 DEF Rename
<1>3. \A e \in Pins : entry'[e] = IF e = d THEN body[p] ELSE entry[e]
  BY <1>2 DEF Inv, TypeOK
<1>4. \A e \in Pins : entry'[e] = entry[e] \/ Whole(e, entry'[e])
  BY <1>1, <1>3
<1>5. Cache'
  <2>1. \A e \in Pins : entry'[e] \in {None, Torn} \/ Whole(e, entry'[e])
    BY <1>4 DEF Inv, Cache
  <2> QED
    BY <1>1, <2>1 DEF Inv, Cache, Whole
<1>6. Whole(d, entry'[d]) /\ Pinned(ref[p], entry'[d])
  BY <1>1, <1>3, PinnedIsWhole
<1>7. \/ stage'[p] = "note" /\ ref[p].scheme = "oci"
      \/ stage'[p] = "have"
  BY DEF Rename, Goto, Inv, TypeOK
<1>8. Held(p)'
  BY <1>1, <1>6, <1>7 DEF Held, Verified, Whole, Pinned, AtPath
<1>9. \A e \in Pins, i \in Pids : i # Pid[p] => tmp'[e][i] = tmp[e][i]
  BY DEF Rename, SetTmp, Inv, TypeOK
<1>10. \A q \in Procs \ {p} : /\ stage'[q] = stage[q]
                             /\ ref'[q] = ref[q]
                             /\ body'[q] = body[q]
  BY DEF Rename, Goto, Inv, TypeOK
<1> QED
  BY <1>1, <1>4, <1>5, <1>8, <1>9, <1>10 DEF Owed, Aside

LEMMA RecordOwes ==
    ASSUME Inv, NEW p \in Procs, OpenRecord(p) \/ WriteRecord(p)
    PROVE  Owed(p)
<1> DEFINE d == ref[p].pin
<1>1. /\ ref[p] \in ArtifactRef /\ ref[p].scheme = "oci" /\ d \in Pins
      /\ Whole(d, body[p]) /\ Whole(d, entry[d])
      /\ UNCHANGED <<entry, tmp, ref, body>>
  BY DEF OpenRecord, WriteRecord, Inv, Held, Verified, TypeOK
<1>2. \A m \in Manifests :
         record'[m] \in {record[m], Torn} \/ Whole(m, record'[m])
  BY <1>1 DEF OpenRecord, WriteRecord, Inv, TypeOK, Pins
<1>3. Cache'
  <2>1. \A m \in Manifests :
           record'[m] \in {None, Torn} \/ Whole(m, record'[m])
    BY <1>2 DEF Inv, Cache
  <2> QED
    BY <1>1, <2>1 DEF Inv, Cache, Whole
<1>4. stage'[p] \in {"noted", "have"}
  BY DEF OpenRecord, WriteRecord, Goto, Inv, TypeOK
<1>5. Pinned(ref[p], entry[d])
  BY <1>1, PinnedIsWhole
<1>6. Held(p)'
  BY <1>1, <1>4, <1>5 DEF Held, Verified, Whole, Pinned, AtPath
<1>7. \A q \in Procs \ {p} : /\ stage'[q] = stage[q]
                            /\ ref'[q] = ref[q]
                            /\ body'[q] = body[q]
  BY DEF OpenRecord, WriteRecord, Goto, Inv, TypeOK
<1> QED
  BY <1>1, <1>2, <1>3, <1>6, <1>7 DEF Owed, Aside

LEMMA ProceedOwes ==
    ASSUME Inv, NEW p \in Procs, Proceed(p) \/ Fetch(p)
    PROVE  Owed(p)
<1>1. CASE Use(p)
  BY <1>1, FailOwes DEF Use, Fail
<1> QED
  BY <1>1, LookOwes, CompareOwes, FetchOwes, BlobOwes, TmpOwes, RenameOwes,
     RecordOwes DEF Proceed, Fetch

-----------------------------------------------------------------------------
(* The invariant, and what follows from it.                                *)

LEMMA OwedKeeps ==
    ASSUME Inv, NEW p \in Procs, Owed(p), TypeOK'
    PROVE  Inv'
<1>1. \A q \in Procs : Held(q)'
  BY OthersKeep DEF Inv, Owed
<1> QED
  BY <1>1 DEF Inv, Owed

LEMMA PowerLossKeeps ==
    ASSUME Inv, NEW entries \in SUBSET Cached, NEW records \in SUBSET Cached,
           PowerLoss(entries, records), TypeOK'
    PROVE  Inv'
<1>1. \A p \in Procs : stage'[p] = "idle"
  BY DEF PowerLoss
<1>2. \A p \in Procs : Held(p)'
  BY <1>1 DEF Held, Verified
<1>3. Cache'
  BY DEF PowerLoss, Tear, Cache, Inv, Whole, Pins
<1> QED
  BY <1>2, <1>3 DEF Inv

LEMMA NextKeeps ==
    ASSUME Inv, [Next]_vars
    PROVE  Inv'
<1>1. CASE \E p \in Procs : Proceed(p) \/ Fetch(p)
  BY <1>1, TypesProceed, ProceedOwes, OwedKeeps DEF Inv
<1>2. CASE \E p \in Procs, r \in ArtifactRef : Resolve(p, r)
  BY <1>2, TypesEnvironment, ResolveOwes, OwedKeeps DEF Inv
<1>3. CASE \E p \in Procs : WriteFails(p)
  BY <1>3, TypesEnvironment, FailOwes, OwedKeeps DEF Inv, WriteFails
<1>7. CASE \E p \in Procs : ReadFails(p)
  BY <1>7, TypesEnvironment, ReadFailsOwes, OwedKeeps DEF Inv
<1>4. CASE \E p \in Procs : Crash(p)
  BY <1>4, TypesEnvironment, FailOwes, OwedKeeps DEF Inv, Crash, Fail
<1>5. CASE \E entries, records \in SUBSET Cached : PowerLoss(entries, records)
  BY <1>5, TypesEnvironment, PowerLossKeeps DEF Inv
<1>6. CASE UNCHANGED vars
  BY <1>6 DEF vars, disk, proc, Inv, TypeOK, Cache, Held, Whole, Pinned, AtPath,
              Verified, Pids
<1> QED
  BY <1>1, <1>2, <1>3, <1>4, <1>5, <1>6, <1>7 DEF Next

\* The variables of ArtifactCache keep their types, whatever processes,
\* peers and faults do.
THEOREM CacheTypes == Spec => []TypeOK
<1>1. Inv => TypeOK
  BY DEF Inv
<1> QED
  BY <1>1, StartsRight, NextKeeps, PTL DEF Spec

\* A path that resolve() handed out holds what its URI pinned until it has
\* been opened, for any number of processes on the cache, whatever crashes
\* and power losses left in it: files enter it whole and verified, and are
\* verified again when they are found.
THEOREM LoadedArtifactsArePinned == Spec => []LoadedIsPinned
<1>1. Inv => LoadedIsPinned
  BY DEF Inv, Held, LoadedIsPinned
<1> QED
  BY <1>1, StartsRight, NextKeeps, PTL DEF Spec

-----------------------------------------------------------------------------
(* Signatures.                                                             *)

Rooted == \A p \in Procs : cosign[p] # "off"

\* Past the signatures there is only what was signed.
Vouched ==
    /\ \A m \in Manifests : entry[m] # None \/ record[m] # None => m \in Signed
    /\ \A p \in Procs :
          /\ stage[p] \in Verified \union {"blob", "compare", "have"}
          /\ ref[p].scheme = "oci"
          => ref[p].pin \in Signed
    /\ \A p \in Procs :
          body[p] # None => stage[p] \in Verified \union {"compare", "have"}

LEMMA SignedKeeps ==
    ASSUME Inv, Rooted => Vouched, [Next]_vars
    PROVE  (Rooted => Vouched)'
<1> SUFFICES ASSUME Rooted' PROVE Vouched'
  OBVIOUS
<1>1. cosign' = cosign
  BY DEF Next, Proceed, Fetch, Look, Compare, ReadFails, FetchFails, Unauthorised, GetManifest,
         GetSignatures, GetBlob, OpenTmp, WriteTmp, Rename, OpenRecord,
         WriteRecord, Use, Resolve, WriteFails, Crash, PowerLoss, Fault,
         Static, vars
<1>2. Rooted /\ Vouched
  BY <1>1 DEF Rooted
<1> USE <1>2 DEF Inv, TypeOK, Goto
<1>3. ASSUME NEW p \in Procs, Fail(p) PROVE Vouched'
  BY <1>3 DEF Fail, Leave, Vouched, disk, Verified
<1>4. ASSUME NEW p \in Procs, ToLayer(p), stage[p] \in Fetching,
             ref[p].pin \in Signed
      PROVE  Vouched'
  <2>1. CASE Fail(p)
    BY <2>1, <1>3
  <2>2. CASE stage' = [stage EXCEPT ![p] = "blob"]
             /\ UNCHANGED <<disk, ref, body, token>>
    BY <1>4, <2>2 DEF Vouched, disk, Verified, Fetching
  <2> QED
    BY <1>4, <2>1, <2>2 DEF ToLayer
<1>5. ASSUME NEW p \in Procs, Look(p) PROVE Vouched'
  <2>1. /\ ref[p].pin \in Pins /\ ref[p] \in ArtifactRef
        /\ UNCHANGED <<disk, ref>>
    BY <1>5 DEF Look, Held
  <2>2. CASE ref[p].scheme = "http"
    <3>1. /\ body' = body
          /\ \/ stage' = [stage EXCEPT ![p] = "have"]
             \/ stage' = [stage EXCEPT ![p] = "blob"]
      BY <1>5, <2>2 DEF Look
    <3>2. body[p] = None
      BY <1>5 DEF Look, Vouched, Verified
    <3> QED
      BY <2>1, <2>2, <3>1, <3>2 DEF Vouched, disk, Verified
  <2>3. CASE ref[p].scheme # "http"
    <3>1. \/ /\ stage' = [stage EXCEPT ![p] = "manifest"]
             /\ body' = body
          \/ /\ stage' = [stage EXCEPT ![p] = "compare"]
             /\ body' = [body EXCEPT ![p] = record[ref[p].pin]]
             /\ entry[ref[p].pin] # None
      BY <1>5, <2>3 DEF Look
    <3>2. body[p] = None
      BY <1>5 DEF Look, Vouched, Verified
    <3>3. ref[p].scheme = "oci" => ref[p].pin \in Manifests
      BY <2>1, DataAssumption DEF ArtifactRef, Pins
    <3> QED
      BY <2>1, <3>1, <3>2, <3>3 DEF Vouched, disk, Verified
  <2> QED
    BY <2>2, <2>3
<1>6. ASSUME NEW p \in Procs, Compare(p) PROVE Vouched'
  BY <1>6 DEF Compare, Vouched, disk, Verified
<1>7. ASSUME NEW p \in Procs, Unauthorised(p) PROVE Vouched'
  BY <1>7 DEF Unauthorised, Vouched, disk, Verified
<1>8. ASSUME NEW p \in Procs, NEW bytes \in Bytes, GetManifest(p, bytes)
      PROVE  Vouched'
  <2>1. cosign[p] # "off"
    BY <1>2 DEF Rooted
  <2>2. \/ Fail(p)
        \/ stage' = [stage EXCEPT ![p] = "signatures"]
           /\ UNCHANGED <<disk, ref, body>>
    BY <1>8, <2>1 DEF GetManifest
  <2>3. stage[p] = "manifest"
    BY <1>8 DEF GetManifest
  <2> QED
    BY <1>3, <2>2, <2>3 DEF Vouched, disk, Verified
<1>9. ASSUME NEW p \in Procs, NEW sigs \in SignatureSets,
             GetSignatures(p, sigs)
      PROVE  Vouched'
  <2>1. CASE Verify(p, sigs)
    <3>1. PICK s \in Signatures : VerifyLayer(s, ref[p].pin)
      BY <2>1 DEF Verify, SignatureSets
    <3>2. ref[p].pin \in Signed
      BY <3>1 DEF VerifyLayer, Signatures
    <3> QED
      BY <1>9, <1>4, <2>1, <3>2 DEF GetSignatures, Fetching
  <2> QED
    BY <1>9, <1>3, <2>1 DEF GetSignatures
<1>10. ASSUME NEW p \in Procs, NEW bytes \in Bytes, GetBlob(p, bytes)
       PROVE  Vouched'
  BY <1>10, <1>3 DEF GetBlob, Vouched, disk, Verified
<1>11. ASSUME NEW p \in Procs,
              OpenTmp(p) \/ WriteTmp(p)
       PROVE  Vouched'
  BY <1>11 DEF OpenTmp, WriteTmp, Vouched, Verified
<1>12. ASSUME NEW p \in Procs, Rename(p) PROVE Vouched'
  <2>1. /\ stage[p] = "rename" /\ ref[p].pin \in Pins
        /\ ref[p] \in ArtifactRef /\ ref[p].scheme # "file"
        /\ UNCHANGED <<record, ref, body>>
    BY <1>12 DEF Rename, Held
  <2>2. \/ stage' = [stage EXCEPT ![p] = "note"]
        \/ stage' = [stage EXCEPT ![p] = "have"]
    BY <1>12 DEF Rename
  <2>3. ref[p].pin \in Manifests => ref[p].pin \in Signed
    <3>1. ref[p].pin \in Manifests => ref[p].scheme = "oci"
      BY <2>1, DataAssumption DEF ArtifactRef
    <3> QED
      BY <2>1, <3>1 DEF Vouched, Verified
  <2>4. \A m \in Manifests : m # ref[p].pin => entry'[m] = entry[m]
    BY <1>12 DEF Rename, Pins
  <2> QED
    BY <2>1, <2>2, <2>3, <2>4 DEF Vouched, Verified
<1>13. ASSUME NEW p \in Procs, OpenRecord(p) \/ WriteRecord(p)
       PROVE  Vouched'
  <2>1. /\ stage[p] \in {"note", "noted"} /\ ref[p].scheme = "oci"
        /\ UNCHANGED <<entry, tmp, ref, body>>
    BY <1>13 DEF OpenRecord, WriteRecord, Held
  <2>2. \A m \in Manifests : m # ref[p].pin => record'[m] = record[m]
    BY <1>13 DEF OpenRecord, WriteRecord, Pins
  <2>3. ref[p].pin \in Signed
    BY <2>1 DEF Vouched, Verified
  <2>4. \/ stage' = [stage EXCEPT ![p] = "noted"]
        \/ stage' = [stage EXCEPT ![p] = "have"]
    BY <1>13 DEF OpenRecord, WriteRecord
  <2> QED
    BY <2>1, <2>2, <2>3, <2>4 DEF Vouched, Verified
<1>14. ASSUME NEW p \in Procs, Proceed(p) \/ Fetch(p) PROVE Vouched'
  <2>1. CASE Use(p)
    BY <1>3, <2>1 DEF Use, Fail
  <2>2. CASE FetchFails(p)
    BY <1>3, <2>2 DEF FetchFails
  <2> QED
    BY <1>14, <1>5, <1>6, <1>7, <1>8, <1>9, <1>10, <1>11, <1>12, <1>13,
       <2>1, <2>2 DEF Proceed, Fetch
<1>15. ASSUME NEW p \in Procs, NEW r \in ArtifactRef, Resolve(p, r)
       PROVE  Vouched'
  <2>1. CASE Fail(p)
    BY <1>3, <2>1
  <2>2. CASE ~Fail(p)
    <3>1. /\ stage[p] = "idle" /\ ref' = [ref EXCEPT ![p] = r]
          /\ stage' = [stage EXCEPT ![p] = IF r.scheme = "file" THEN "have"
                                           ELSE "look"]
          /\ UNCHANGED <<disk, body>>
      BY <1>15, <2>2 DEF Resolve
    <3>2. body[p] = None
      BY <3>1 DEF Vouched, Verified
    <3> QED
      BY <3>1, <3>2 DEF Vouched, disk, Verified
  <2> QED
    BY <2>1, <2>2
<1>18. ASSUME NEW p \in Procs, ReadFails(p) PROVE Vouched'
  <2>1. CASE Fail(p)
    BY <1>3, <2>1
  <2>2. CASE ~Fail(p)
    <3>1. /\ stage[p] = "look" /\ stage' = [stage EXCEPT ![p] = "manifest"]
          /\ UNCHANGED <<disk, ref, body>>
      BY <1>18, <2>2 DEF ReadFails
    <3>2. body[p] = None
      BY <3>1 DEF Vouched, Verified
    <3> QED
      BY <3>1, <3>2 DEF Vouched, disk, Verified
  <2> QED
    BY <2>1, <2>2
<1>16. CASE \E entries, records \in SUBSET Cached :
               PowerLoss(entries, records)
  BY <1>16 DEF PowerLoss, Tear, Vouched, Verified, Pins
<1>17. CASE UNCHANGED vars
  BY <1>17 DEF vars, disk, proc, Vouched
<1> QED
  BY <1>3, <1>14, <1>15, <1>16, <1>17, <1>18 DEF Next, WriteFails, Crash, Fail

\* Where every process that shares a cache has a trust root, usable or not,
\* nothing of an unsigned manifest enters it, for any number of processes.
THEOREM UnsignedStaysOut == Spec => []OnlySignedArtifacts
<1>1. Init => (Rooted => Vouched)
  <2> SUFFICES ASSUME Init PROVE Vouched
    OBVIOUS
  <2> QED
    BY DEF Init, Vouched, Verified, Pins
<1>2. Inv /\ (Rooted => Vouched) => OnlySignedArtifacts
  BY DEF Rooted, Vouched, OnlySignedArtifacts
<1> QED
  BY <1>1, <1>2, StartsRight, NextKeeps, SignedKeeps, PTL DEF Spec
=============================================================================
