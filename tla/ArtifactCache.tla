---------------------------- MODULE ArtifactCache ----------------------------
(***************************************************************************)
(* Model artifacts (crates/artifact): processes that resolve URIs through  *)
(* one cache directory.  A URI pins a digest; `https` pins the bytes,      *)
(* `oci` pins a manifest that names them, `file` may pin or not.  Bytes    *)
(* are fetched, verified, written to a temporary file and renamed to       *)
(* sha256/<pin>; for oci the layer's digest is written beside it, so that  *)
(* the file can be verified again when it is found there.                  *)
(*                                                                         *)
(* One action is one system call on the directory, or one answer of a      *)
(* peer.  SHA-256 is taken as injective: a digest is named by the bytes    *)
(* that have it.  A file that a crash or an error cut short is Torn.       *)
(***************************************************************************)
EXTENDS Naturals, Sequences

CONSTANTS
    Procs,        \* processes with this cache: routers, routedctl
    Pid,          \* their process ids, which name their temporary files
    Blobs,        \* artifacts
    Manifests,    \* OCI manifests
    Layers,       \* the layers each manifest names
    Deployments,  \* which trust root each process is given
    Local,        \* what the path of a file:// URI holds
    Signed,       \* the manifests the owner of the cosign key has signed
    Torn,         \* what is left of a file or record that was cut short
    None,         \* no file; nothing in hand
    MaxFaults     \* bound on crashes, power losses and failing writes

\* ADR-0022 keeps a cache to one pod, where live processes differ in their pid.
ASSUME PidsDiffer == \A p, q \in Procs : Pid[p] = Pid[q] => p = q
ASSUME LayersAssumption == Layers \in [Manifests -> Seq(Blobs)]
ASSUME DataAssumption ==
    /\ Blobs \intersect Manifests = {}
    /\ None # Torn
    /\ {None, Torn} \intersect (Blobs \union Manifests) = {}
ASSUME LocalAssumption == Local \in Blobs
ASSUME SignedAssumption == Signed \subseteq Manifests
\* No trust root, a public key, or one that was configured and cannot be read
Cosign == {"off", "key", "poisoned"}
ASSUME DeploymentsAssumption == Deployments \subseteq [Procs -> Cosign]
ASSUME FaultsAssumption == MaxFaults \in Nat

Pins  == Blobs \union Manifests
Bytes == Pins \union {Torn}
Pids  == {Pid[p] : p \in Procs}

\* What parse() reads in a URI: scheme and digest.  A digest is one of a blob
\* or one of a manifest, and is used as what it is.
ArtifactRef == [scheme : {"file"}, pin : Pins \union {None}]
               \union [scheme : {"http"}, pin : Blobs \union {None}]
               \union [scheme : {"oci"}, pin : Manifests \union {None}]


Stage == {"idle", "look", "compare",                    \* is it in the cache?
          "manifest", "signatures", "blob",             \* fetching
          "open", "write", "rename", "note", "noted",   \* entering the cache
          "have"}                                       \* resolve() returned

VARIABLES
    entry,     \* <cache>/sha256/<pin>
    record,    \* <cache>/sha256/<pin>.layer
    tmp,       \* <cache>/sha256/<pin>.tmp.<pid>
    stage,     \* how far each process is
    ref,       \* what it resolves
    body,      \* the verified bytes, or the record just read
    token,     \* does it have a bearer token for the registry?
    cosign,    \* ROUTED_ARTIFACT_COSIGN_PUB of each process
    faults     \* faults so far

disk == <<entry, record, tmp>>
proc == <<stage, ref, body, token>>
vars == <<disk, proc, cosign, faults>>

Nothing == [scheme |-> "file", pin |-> None]

\* The bytes that a pinned reference stands for.
Pinned(r, b) ==
    \/ r.scheme = "oci" /\ r.pin # None /\ Layers[r.pin] = <<b>>
    \/ r.scheme # "oci" /\ r.pin \in {None, b}

\* What is at the path that resolve() returns for it.
AtPath(r) == IF r.scheme = "file" THEN Local ELSE entry[r.pin]

Init ==
    /\ entry = [d \in Pins |-> None]
    /\ record = [d \in Pins |-> None]
    /\ tmp = [d \in Pins |-> [i \in Pids |-> None]]
    /\ stage = [p \in Procs |-> "idle"]
    /\ ref = [p \in Procs |-> Nothing]
    /\ body = [p \in Procs |-> None]
    /\ token = [p \in Procs |-> FALSE]
    /\ cosign \in Deployments
    /\ faults = 0

-----------------------------------------------------------------------------
(* A process's own steps.                                                  *)

Goto(p, s) == stage' = [stage EXCEPT ![p] = s]

\* The call is over, and what it held is gone.
Leave(p) ==
    /\ Goto(p, "idle")
    /\ ref' = [ref EXCEPT ![p] = Nothing]
    /\ body' = [body EXCEPT ![p] = None]
    /\ token' = [token EXCEPT ![p] = FALSE]

\* resolve() returns an error: the caller gives the artifact up.
Fail(p) == Leave(p) /\ UNCHANGED <<disk>>

Static == UNCHANGED <<cosign, faults>>

\* parse(): a remote reference needs a digest.
Parses(r) == r.scheme = "file" \/ r.pin # None

Resolve(p, r) ==
    /\ stage[p] = "idle"
    /\ IF ~Parses(r) \/ (r.scheme = "file" /\ r.pin \notin {None, Local})
       THEN Fail(p)
       ELSE /\ Goto(p, IF r.scheme = "file" THEN "have" ELSE "look")
            /\ ref' = [ref EXCEPT ![p] = r]
            /\ UNCHANGED <<disk, body, token>>
    /\ Static

\* A plausible bug: a file that is in the cache is taken as verified
LookTrusts(p) ==
    LET d == ref[p].pin IN
    /\ stage[p] = "look"
    /\ Goto(p, IF entry[d] # None THEN "have"
               ELSE IF ref[p].scheme = "oci" THEN "manifest" ELSE "blob")
    /\ UNCHANGED <<disk, ref, body, token>>
    /\ Static

\* Is it there?  An http artifact hashes to its own name; for an oci one the
\* record beside it is read first.
Look(p) ==
    LET d == ref[p].pin IN
    /\ stage[p] = "look"
    /\ IF ref[p].scheme = "http"
       THEN /\ Goto(p, IF entry[d] = d THEN "have" ELSE "blob")
            /\ UNCHANGED body
       ELSE IF None \in {entry[d], record[d]}
       THEN Goto(p, "manifest") /\ UNCHANGED body
       ELSE Goto(p, "compare") /\ body' = [body EXCEPT ![p] = record[d]]
    /\ UNCHANGED <<disk, ref, token>>
    /\ Static

\* A torn record is the digest of nothing, not even of a torn file.
Compare(p) ==
    /\ stage[p] = "compare"
    /\ Goto(p, IF body[p] # Torn /\ entry[ref[p].pin] = body[p]
               THEN "have" ELSE "manifest")
    /\ body' = [body EXCEPT ![p] = None]
    /\ UNCHANGED <<disk, ref, token>>
    /\ Static

\* The stages at which bytes are awaited from a peer
Fetching == {"manifest", "signatures", "blob"}

\* A call fails, or a body cannot be read; so does an oci location that
\* names no repository, before the first call.
FetchFails(p) ==
    /\ stage[p] \in Fetching
    /\ Fail(p)
    /\ Static

\* A plausible bug: get() asks for another token each time it is refused
UnauthorisedRetries(p) ==
    /\ stage[p] \in Fetching \ {"blob"}
    /\ token' = [token EXCEPT ![p] = ~@]
    /\ UNCHANGED <<disk, stage, ref, body>>
    /\ Static

\* A registry answers 401: get() fetches an anonymous token and asks once
\* more.  With a token it gives up (FetchFails), like an http fetch.
Unauthorised(p) ==
    /\ stage[p] \in Fetching
    /\ ref[p].scheme = "oci"
    /\ ~token[p]
    /\ token' = [token EXCEPT ![p] = TRUE]
    /\ UNCHANGED <<disk, stage, ref, body>>
    /\ Static

\* The manifest must name one layer, which is asked for next.
ToLayer(p) ==
    IF Len(Layers[ref[p].pin]) # 1 THEN Fail(p)
    ELSE Goto(p, "blob") /\ UNCHANGED <<disk, ref, body, token>>

\* The manifest arrives and must hash to the pin.
GetManifest(p, bytes) ==
    /\ stage[p] = "manifest"
    /\ IF bytes # ref[p].pin THEN Fail(p)
       ELSE IF cosign[p] = "off" THEN ToLayer(p)
       ELSE Goto(p, "signatures") /\ UNCHANGED <<disk, ref, body, token>>
    /\ Static

\* A signature as fetched: whose key made it, which manifest its payload
\* names, and whether annotation and payload came intact.
Signatures ==
    {s \in [key : {"ours", "other"}, names : Manifests, intact : BOOLEAN] :
        s.key = "ours" => s.names \in Signed}

\* One that verifies is enough, so sets of one tell what larger ones do.
SignatureSets == {{}} \union {{s} : s \in Signatures}

VerifyLayer(s, m) == s.intact /\ s.key = "ours" /\ s.names = m

\* A plausible bug: an unusable trust root disables verification
VerifyFailsOpen(p, sigs) ==
    cosign[p] = "poisoned" \/ \E s \in sigs : VerifyLayer(s, ref[p].pin)

\* verify(): a trust root that could not be loaded verifies nothing; of the
\* signatures one is enough.
Verify(p, sigs) ==
    cosign[p] = "key" /\ \E s \in sigs : VerifyLayer(s, ref[p].pin)

\* The signature manifest arrives under its tag, with any signatures.
GetSignatures(p, sigs) ==
    /\ stage[p] = "signatures"
    /\ IF Verify(p, sigs) THEN ToLayer(p) ELSE Fail(p)
    /\ Static

\* The artifact's bytes arrive and must hash to the pin, or to the digest
\* the manifest gives for its layer.
GetBlob(p, bytes) ==
    /\ stage[p] = "blob"
    /\ IF ~Pinned(ref[p], bytes)
       THEN Fail(p)
       ELSE /\ Goto(p, "open")
            /\ body' = [body EXCEPT ![p] = bytes]
            /\ token' = [token EXCEPT ![p] = FALSE]    \* not used again
            /\ UNCHANGED <<disk, ref>>
    /\ Static

-----------------------------------------------------------------------------
(* Entering the cache.  fs::write truncates and then writes; rename is     *)
(* atomic.  Nothing is flushed.                                            *)

SetTmp(p, b) == tmp' = [tmp EXCEPT ![ref[p].pin][Pid[p]] = b]

OpenTmp(p) ==
    /\ stage[p] = "open"
    /\ SetTmp(p, Torn)
    /\ Goto(p, "write")
    /\ UNCHANGED <<entry, record, ref, body, token>>
    /\ Static

WriteTmp(p) ==
    /\ stage[p] = "write"
    /\ SetTmp(p, body[p])
    /\ Goto(p, "rename")
    /\ UNCHANGED <<entry, record, ref, body, token>>
    /\ Static

Rename(p) ==
    LET d == ref[p].pin IN
    /\ stage[p] = "rename"
    /\ entry' = [entry EXCEPT ![d] = tmp[d][Pid[p]]]
    /\ SetTmp(p, None)
    /\ Goto(p, IF ref[p].scheme = "oci" THEN "note" ELSE "have")
    /\ UNCHANGED <<record, ref, body, token>>
    /\ Static

OpenRecord(p) ==
    /\ stage[p] = "note"
    /\ record' = [record EXCEPT ![ref[p].pin] = Torn]
    /\ Goto(p, "noted")
    /\ UNCHANGED <<entry, tmp, ref, body, token>>
    /\ Static

WriteRecord(p) ==
    /\ stage[p] = "noted"
    /\ record' = [record EXCEPT ![ref[p].pin] = body[p]]
    /\ Goto(p, "have")
    /\ UNCHANGED <<entry, tmp, ref, body, token>>
    /\ Static

\* The caller opens the path it was given.
Use(p) ==
    /\ stage[p] = "have"
    /\ Leave(p)
    /\ UNCHANGED disk
    /\ Static

-----------------------------------------------------------------------------
(* Faults.                                                                 *)

Fault ==
    /\ faults < MaxFaults
    /\ faults' = faults + 1
    /\ UNCHANGED cosign

\* A file that is there cannot be read, which ends the call; a record that
\* cannot be read is taken as none.
ReadFails(p) ==
    LET d == ref[p].pin IN
    /\ stage[p] \in {"look", "compare"}
    /\ entry[d] # None
    /\ \/ Fail(p)
       \/ /\ stage[p] = "look" /\ ref[p].scheme = "oci" /\ record[d] # None
          /\ Goto(p, "manifest")
          /\ UNCHANGED <<disk, ref, body, token>>
    /\ Fault

\* The disk is full or the directory cannot be written: what was opened
\* stays as it is.
WriteFails(p) ==
    /\ stage[p] \in {"open", "write", "rename", "note", "noted"}
    /\ Fail(p)
    /\ Fault

\* A process is killed and starts again, in a container with the same pid.
Crash(p) ==
    /\ stage[p] # "idle"
    /\ Leave(p)
    /\ UNCHANGED disk
    /\ Fault

Cached == {d \in Pins : {entry[d], record[d]} # {None}}

Tear(files, torn) ==
    [d \in Pins |-> IF d \in torn /\ files[d] # None THEN Torn ELSE files[d]]

\* The machine stops: files that were not on the disk yet are found torn.
PowerLoss(entries, records) ==
    /\ entry' = Tear(entry, entries)
    /\ record' = Tear(record, records)
    /\ tmp' = [d \in Pins |-> [i \in Pids |->
                 IF tmp[d][i] = None THEN None ELSE Torn]]
    /\ stage' = [p \in Procs |-> "idle"]
    /\ ref' = [p \in Procs |-> Nothing]
    /\ body' = [p \in Procs |-> None]
    /\ token' = [p \in Procs |-> FALSE]
    /\ Fault

-----------------------------------------------------------------------------
\* What a peer's answer, or its failing to answer, does
Fetch(p) ==
    \/ FetchFails(p)
    \/ Unauthorised(p)
    \/ \E bytes \in Bytes : GetManifest(p, bytes)
    \/ \E sigs \in SignatureSets : GetSignatures(p, sigs)
    \/ \E bytes \in Bytes : GetBlob(p, bytes)

\* What the process does on its own
Proceed(p) ==
    \/ Look(p)
    \/ Compare(p)
    \/ OpenTmp(p)
    \/ WriteTmp(p)
    \/ Rename(p)
    \/ OpenRecord(p)
    \/ WriteRecord(p)
    \/ Use(p)

Next ==
    \/ \E p \in Procs : Proceed(p) \/ Fetch(p)
    \/ \E p \in Procs, r \in ArtifactRef : Resolve(p, r)
    \/ \E p \in Procs : ReadFails(p) \/ WriteFails(p)
    \/ \E p \in Procs : Crash(p)
    \/ \E entries, records \in SUBSET Cached : PowerLoss(entries, records)

Spec == Init /\ [][Next]_vars

\* The process runs, and calls on the cache return.  That a peer's call ends
\* is not assumed, for none has a deadline: EveryResolveEnds has it as a
\* premise.
Fairness == \A p \in Procs : WF_vars(Proceed(p))
FairSpec == Spec /\ Fairness

-----------------------------------------------------------------------------
(* Properties.                                                             *)

\* The variables take the values the comments above give them.
TypeOK ==
    /\ entry \in [Pins -> Bytes \union {None}]
    /\ record \in [Pins -> Blobs \union {Torn, None}]
    /\ tmp \in [Pins -> [Pids -> Bytes \union {None}]]
    /\ stage \in [Procs -> Stage]
    /\ ref \in [Procs -> ArtifactRef]
    /\ body \in [Procs -> Bytes \union {None}]
    /\ token \in [Procs -> BOOLEAN]
    /\ cosign \in [Procs -> Cosign]
    /\ faults \in 0..MaxFaults

\* What is at the path that resolve() gave a caller is what the URI pinned,
\* until the caller has opened it: though others write the same cache in
\* between, and crashes have left torn files and records there.
LoadedIsPinned ==
    \A p \in Procs : stage[p] = "have" => Pinned(ref[p], AtPath(ref[p]))

\* Where every process that writes the cache has a trust root, usable or
\* not, nothing of a manifest the key's owner did not sign is in it, or on
\* its way there (ADR-0022: hits are not verified again, so one process
\* without a key opens the cache to all).
OnlySignedArtifacts ==
    (\A p \in Procs : cosign[p] # "off") =>
        /\ \A m \in Manifests : entry[m] # None => m \in Signed
        /\ \A p \in Procs :
              ref[p].scheme = "oci" /\ body[p] # None => ref[p].pin \in Signed

\* As long as its own calls to peers end, with whatever answer or error, a
\* resolve ends (oci.rs get asks once more after a 401, not again and again),
\* whatever the cache holds and though the calls of other processes on the
\* same cache never end: it waits for none of them.
EveryResolveEnds ==
    \A p \in Procs :
        WF_vars(Fetch(p)) => (stage[p] # "idle" ~> stage[p] = "idle")
=============================================================================
