-------------------------------- MODULE Fetch --------------------------------
(* conformance/datasets/datasets.py: one dataset's files, from the transfer  *)
(* to what a tool opens.  A file is known by what its bytes are worth: the   *)
(* beginning of it, all of it, or the right size of the wrong bytes.  The    *)
(* tool may end anywhere, the disk may rot and the root may be moved.        *)
EXTENDS Naturals, FiniteSets

CONSTANTS
    DataFiles,      \* the descriptor's files
    ArchiveFile     \* the one `extract` unpacks

ASSUME ArchiveAssumption == ArchiveFile \in DataFiles

VARIABLES
    content,     \* per file, what is on the disk
    member,      \* the archive's members, unpacked
    linkedTo,    \* per shard, the root its bfb link was made under
    root,        \* the root in use: bounded by MaxRoots
    text,        \* what convert-beir left
    doing,       \* the running command
    todo,        \* and the files it has still to see to
    vouched      \* a command ended saying every file is verified

fvars == <<content, member, linkedTo, root, text, doing, todo, vouched>>

MaxRoots == 2
Contents == {"none", "short", "badStart", "whole", "rotten"}
Shards == DataFiles \ {ArchiveFile}

FetchInit ==
    /\ content = [f \in DataFiles |-> "none"]
    /\ member = "none"
    /\ linkedTo = [f \in Shards |-> 0]
    /\ root = 1
    /\ text = "none"
    /\ doing = "nothing" /\ todo = {}
    /\ vouched = FALSE

(* survey: size first, then the digest unless it is skipped.                 *)
RightSize(f) == content[f] \in {"whole", "rotten"}
\* Mutant: a file of the right size is the file.
FileOfSize(f, checkDigest) == RightSize(f)

FilePresent(f, checkDigest) == RightSize(f) /\ (checkDigest => content[f] = "whole")
WrongDigest == {f \in DataFiles : content[f] = "rotten"}
Missing == {f \in DataFiles : ~FilePresent(f, TRUE)}

(* inventory, for `list` and the doctor.                                     *)
InventoryState(checkDigest) ==
    LET there == {f \in DataFiles : FilePresent(f, checkDigest)}
    IN  IF checkDigest /\ WrongDigest # {} THEN "digest mismatch"
        ELSE IF there = DataFiles THEN "complete"
        ELSE IF there # {} THEN "partial" ELSE "not fetched"

(* A link resolves while the root it names is the one the files are under.   *)
StaleLinks == {f \in Shards : linkedTo[f] \notin {0, root}}

-----------------------------------------------------------------------------
Ended(ok) == doing' = "nothing" /\ todo' = {} /\ vouched' = ok

(* fetch takes the files whose digest is not right; with none, it is done    *)
(* and does not come to the archive.                                         *)
StartFetch ==
    /\ doing = "nothing"
    /\ IF Missing = {} THEN Ended(TRUE)
       ELSE doing' = "fetch" /\ todo' = Missing /\ vouched' = FALSE
    /\ UNCHANGED <<content, member, linkedTo, root, text>>

(* curl resumes what is there, so the bytes it ends with are as good as the  *)
(* ones it began with; past the end it may refuse or have nothing to do.     *)
Transferred(c) ==
    CASE c = "none"     -> {"none", "short", "whole", "rotten"}
      [] c = "short"    -> {"short", "whole", "rotten"}
      [] c = "badStart" -> {"badStart", "rotten"}
      [] OTHER          -> {c}

(* fetch_file: a failed transfer leaves what it got; a finished one of the   *)
(* wrong digest is removed.  Either ends the command.                        *)
FetchFile ==
    /\ doing = "fetch"
    /\ \E f \in todo, done \in BOOLEAN : \E got \in Transferred(content[f]) :
          /\ done => got \in {"whole", "rotten"}
          /\ content' = [content EXCEPT ![f] = IF done /\ got = "rotten" THEN "none" ELSE got]
          /\ IF ~done \/ got = "rotten" THEN Ended(FALSE)
             ELSE IF todo = {f} THEN doing' = "extract" /\ todo' = {} /\ vouched' = TRUE
             ELSE todo' = todo \ {f} /\ UNCHANGED <<doing, vouched>>
    /\ UNCHANGED <<member, linkedTo, root, text>>

(* extract: members of the right size are left alone; an archive that only   *)
(* exists is unpacked, and what it cannot be read to the end of leaves a     *)
(* part.                                                                     *)
Extract ==
    /\ \/ doing = "extract"                    \* the end of fetch
       \/ doing = "nothing"                    \* the command
    /\ doing' = "nothing"
    /\ IF member \in {"whole", "rotten"} \/ content[ArchiveFile] = "none" THEN UNCHANGED member
       ELSE member' \in IF content[ArchiveFile] = "whole" THEN {"whole", "part"}
                        ELSE {"part", "rotten"}
    /\ UNCHANGED <<content, linkedTo, root, text, todo, vouched>>

(* verify: digests of the files, sizes of the members.                       *)
Verify ==
    /\ doing = "nothing"
    /\ Ended(Missing = {} /\ member \in {"whole", "rotten"})
    /\ UNCHANGED <<content, member, linkedTo, root, text>>

(* bfb-config --link: one shard after another, until one is not there.       *)
StartLink ==
    /\ doing = "nothing" /\ doing' = "link" /\ todo' = Shards
    /\ UNCHANGED <<content, member, linkedTo, root, text, vouched>>
LinkShard ==
    /\ doing = "link"
    /\ \E f \in todo :
          IF content[f] = "none"
          THEN doing' = "nothing" /\ todo' = {} /\ UNCHANGED linkedTo
          ELSE /\ linkedTo' = [linkedTo EXCEPT ![f] = root]
               /\ todo' = todo \ {f}
               /\ doing' = IF todo = {f} THEN "nothing" ELSE doing
    /\ UNCHANGED <<content, member, root, text, vouched>>

(* convert-beir writes the text layout, then compares its counts.            *)
ConvertBeir ==
    /\ doing = "nothing" /\ member # "none"
    /\ text' \in IF member = "whole" THEN {"whole"} ELSE {"wrongCount", text}
    /\ UNCHANGED <<content, member, linkedTo, root, doing, todo, vouched>>

-----------------------------------------------------------------------------
Interrupted ==
    /\ doing # "nothing" /\ Ended(FALSE)
    /\ UNCHANGED <<content, member, linkedTo, root, text>>

Rot ==
    /\ \E f \in DataFiles :
          /\ content[f] \in {"whole", "short"}
          /\ content' = [content EXCEPT ![f] = IF content[f] = "whole" THEN "rotten"
                                               ELSE "badStart"]
    /\ vouched' = FALSE
    /\ doing = "nothing"
    /\ UNCHANGED <<member, linkedTo, root, text, doing, todo>>

MoveRoot ==
    /\ doing = "nothing" /\ root < MaxRoots /\ root' = root + 1
    /\ UNCHANGED <<content, member, linkedTo, text, doing, todo, vouched>>

FetchNext ==
    \/ StartFetch \/ FetchFile \/ Extract \/ Verify \/ StartLink \/ LinkShard
    \/ ConvertBeir \/ Interrupted \/ Rot \/ MoveRoot

FetchSpec == FetchInit /\ [][FetchNext]_fvars

-----------------------------------------------------------------------------
FetchTypeOK ==
    /\ content \in [DataFiles -> Contents]
    /\ member \in {"none", "part", "whole", "rotten"}
    /\ linkedTo \in [Shards -> 0..root]
    /\ root \in 1..MaxRoots
    /\ todo \subseteq DataFiles /\ vouched \in BOOLEAN

(* Once fetch or verify has said that a dataset is verified, every file of   *)
(* it is the upstream one, whatever was interrupted, resumed, refused or had *)
(* rotted before, and the inventory agrees.                                  *)
VouchedIsWhole ==
    vouched => /\ \A f \in DataFiles : content[f] = "whole"
               /\ InventoryState(TRUE) = "complete"
=============================================================================
