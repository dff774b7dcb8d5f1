------------------------------ MODULE Provenance -----------------------------
(* bench/harness/provenance.py: what a run's record says of the engine that  *)
(* served it, while the checkouts and the built files go on changing.        *)
EXTENDS Naturals, Sequences

CONSTANTS
    MaxClock          \* bound: commits, builds and edits

Nobody == {}

VARIABLES
    commits, head,    \* the times the checkout's commits were made; the one it is on
    edited,           \* tracked files modified
    undone,           \* since the build: an edit put back, or a commit older than it checked out
    file,             \* target/release/qdrant or zig-out/bin/strawmann: one image at most
    pin,              \* a copy outside any checkout: its image, with a sidecar or not
    server,           \* who serves: image, and where it was started from
    bannerOf,         \* the image whose banner the label's server.log holds
    record,           \* run.json's build block, the server and the undone it was taken of
    clock

pvars == <<commits, head, edited, undone, file, pin, server, bannerOf, record, clock>>

(* An image is known by when it was built: that is what a sha256 tells apart.*)
ProvenanceInit ==
    /\ commits = <<0>> /\ head = 1 /\ edited = FALSE /\ undone = FALSE
    /\ file = Nobody /\ pin = Nobody /\ server = Nobody /\ bannerOf = Nobody
    /\ record = {} /\ clock = 0

Tick == clock < MaxClock /\ clock' = clock + 1

Edit ==
    /\ edited' = ~edited
    /\ undone' = (undone \/ edited)
    /\ UNCHANGED <<commits, head, file, pin, server, bannerOf, record, clock>>

CommitEdit ==
    /\ edited /\ Tick
    /\ commits' = Append(commits, clock') /\ head' = Len(commits) + 1 /\ edited' = FALSE
    /\ UNCHANGED <<undone, file, pin, server, bannerOf, record>>

Checkout ==
    /\ ~edited
    /\ head' \in DOMAIN commits \ {head}
    /\ undone' = (undone \/ \E i \in file : commits[head'] <= i.built)
    /\ UNCHANGED <<commits, edited, file, pin, server, bannerOf, record, clock>>

(* A build replaces the file; a server on the old one goes on serving it.    *)
BuildFile ==
    /\ Tick
    /\ file' = {[commit |-> head, edited |-> edited, built |-> clock']}
    /\ undone' = FALSE
    /\ UNCHANGED <<commits, head, edited, pin, server, bannerOf, record>>

CopyPin ==
    /\ file # Nobody
    /\ \E sidecar \in BOOLEAN : pin' = {[image |-> i, sidecar |-> sidecar] : i \in file}
    /\ UNCHANGED <<commits, head, edited, undone, file, server, bannerOf, record, clock>>

(* A start by a driver writes the label's server.log; one by hand does not.  *)
Start ==
    /\ server = Nobody
    /\ \E at \in {[image |-> i, from |-> f] : i \in file, f \in {"strawmann", "checkout", "container"}}
                 \cup {[image |-> p.image, from |-> IF p.sidecar THEN "pinned" ELSE "loose"] : p \in pin} :
          /\ server' = {at}
          /\ bannerOf' \in {{at.image}, bannerOf}
    /\ UNCHANGED <<commits, head, edited, undone, file, pin, record, clock>>

Stop ==
    /\ server # Nobody /\ server' = Nobody
    /\ UNCHANGED <<commits, head, edited, undone, file, pin, bannerOf, record, clock>>

-----------------------------------------------------------------------------
\* Mutant: the image is read at its path.
FileSha(s) == IF file = Nobody THEN s.image ELSE CHOOSE i \in file : TRUE

(* /proc/<pid>/exe: the serving image, whatever its path holds now.          *)
BinarySha(s) == s.image

(* _binary_predates_commit: by the path's timestamp, which a file that has   *)
(* been replaced since the start no longer has.                              *)
Predates(s) ==
    IF s.image \notin file THEN "unknown"
    ELSE IF s.image.built < commits[head] THEN "yes" ELSE "no"

(* qdrant_build: the container that claims the process, by its ancestry;     *)
(* else qdrant_native_build, where a checkout outranks a sidecar and the     *)
(* banner is read where there is neither.                                    *)
Source(s) ==
    CASE s.from = "container"               -> "digest"
      [] s.from \in {"strawmann", "checkout"} -> "checkout"
      [] s.from = "pinned"                  -> "sidecar"
      [] s.from = "loose"                   -> "banner"

(* isa_build, build_flags: the label's server.log where there is one, else   *)
(* --probe of the serving image.                                             *)
FlagsOf(s) == IF bannerOf = Nobody THEN s.image ELSE CHOOSE i \in bannerOf : TRUE

BuildRecord(s) ==
    [sha |-> BinarySha(s), source |-> Source(s), flags |-> FlagsOf(s),
     commit |-> IF Source(s) = "checkout" THEN head ELSE s.image.commit,
     dirty |-> Source(s) = "checkout" /\ edited,
     predates |-> IF s.from = "checkout" THEN Predates(s) ELSE "unknown",
     of |-> s, undone |-> undone, ownLog |-> bannerOf \in {Nobody, {s.image}}]

Collect ==
    /\ server # Nobody
    /\ record' = {BuildRecord(s) : s \in server}
    /\ UNCHANGED <<commits, head, edited, undone, file, pin, server, bannerOf, clock>>

(* One record: taken of whatever was done before it.                         *)
ProvenanceNext ==
    record = {} /\ (Edit \/ CommitEdit \/ Checkout \/ BuildFile \/ CopyPin \/ Start \/ Stop \/ Collect)

-----------------------------------------------------------------------------
ProvenanceTypeOK ==
    /\ clock \in 0..MaxClock /\ head \in DOMAIN commits
    /\ \A i \in file : i.commit \in DOMAIN commits /\ i.built <= clock

(* A record names the image that served, though its path may hold another    *)
(* build by then; a commit called older than its binary's build certainly    *)
(* did not produce it, and one that is called neither that nor dirty did,    *)
(* unless since the build an edit was put back or a commit that was already  *)
(* there checked out; a commit read off the binary itself is its own.        *)
RecordIsTheServer ==
    \A r \in record :
        LET image == r.of.image IN
        /\ r.sha = image
        /\ r.ownLog => r.flags = image
        /\ r.source # "checkout" => r.commit = image.commit
        /\ r.predates = "yes" => r.commit # image.commit
        /\ r.predates = "no" /\ ~r.dirty /\ ~r.undone =>
              r.commit = image.commit /\ ~image.edited

(* Why it holds: a commit and a build are dated by when they were made, and  *)
(* unless an edit was undone, a build that is not older than the commit      *)
(* checked out is of it, with the edits there were.                          *)
CommitsDated ==
    /\ clock \in Nat /\ commits \in Seq(0..clock) /\ head \in DOMAIN commits
BuildsDated ==
    \A i \in file :
        /\ i.built \in 0..clock /\ i.commit \in DOMAIN commits
        /\ commits[i.commit] <= i.built
        /\ undone \/ commits[head] > i.built \/ (i.commit = head /\ (i.edited => edited))
RecordInv == CommitsDated /\ BuildsDated /\ RecordIsTheServer
=============================================================================
