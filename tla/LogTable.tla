------------------------------ MODULE LogTable ------------------------------
(***************************************************************************)
(* The table sync_logs as its readers see it: rows come when a client      *)
(* uploads the output of an rsync, in whatever order uploads arrive, and   *)
(* go when an administrator deletes one.  The parsers that turn the output *)
(* into columns are here too, over an output abstracted to its lines.      *)
(***************************************************************************)
EXTENDS Integers, FiniteSets, Sequences

CONSTANTS Logs,       \* ids of sync_logs; numbers stand for the order of UUIDs
          Uploads,    \* Uploads[l]: what the client may send as log l
          Sources,    \* source names
          Synthetic,  \* SYNTHETIC_SOURCE_NAME
          AnySource   \* no source asked for

NULL == 0
Time == Nat \ {NULL}

\* What a line of the output is: an rsync summary or banner line, other
\* bookkeeping, an itemized entry that moves no file, an itemized or a plain
\* transfer, a deletion.
Forms == {"summary", "control", "attributes", "itemized", "plain", "deleting"}

VARIABLES
    stored,   \* ids of the rows
    upload    \* content of each log ever stored; history for one that is deleted

table == <<stored, upload>>

ASSUME LogTableAssumption ==
    /\ Logs \subseteq Nat \ {NULL} /\ IsFiniteSet(Logs)
    /\ Synthetic \in Sources /\ AnySource \notin Sources
    /\ \A l \in Logs : \A u \in Uploads[l] :
          /\ u.source \in Sources /\ u.start \in Time /\ u.end \in Time
          /\ u.exit \in {"null", "zero", "nonzero"} /\ u.dry \in BOOLEAN
          /\ Len(u.lines) \in Nat /\ DOMAIN u.lines = 1 .. Len(u.lines)
          /\ \A i \in DOMAIN u.lines : u.lines[i].form \in Forms

TableOK ==
    /\ stored \subseteq DOMAIN upload
    /\ DOMAIN upload \subseteq Logs
    /\ \A l \in DOMAIN upload : upload[l] \in Uploads[l]

(* The parser *)

IsFileLine(line) == line.form # "summary"

\* The file list, as the positions of its lines in the output.
FileList(u) == {i \in DOMAIN u.lines : IsFileLine(u.lines[i])}

FileCount(u) == Cardinality(FileList(u))

(* parse_rsync_line: a transfer, a deletion, or neither *)

\* A plain line is a path unless it begins as rsync's own output does.
Names(line) ==
    CASE line.form = "itemized"                       -> "transfer"
      [] line.form = "plain" /\ ~line.path.control    -> "transfer"
      [] line.form = "deleting"                       -> "deletion"
      [] OTHER                                        -> "nothing"

Transfers(u) == {i \in FileList(u) : Names(u.lines[i]) = "transfer"}
Deletions(u) == {i \in FileList(u) : Names(u.lines[i]) = "deletion"}

(* Order and filters of the queries *)

Older(a, b) == \/ upload[a].start < upload[b].start
               \/ upload[a].start = upload[b].start /\ a < b

\* A list goes forward from the newest log, backward from the oldest.
Dirs    == {"forward", "backward"}
Back(d) == IF d = "forward" THEN "backward" ELSE "forward"

\* Does one who reads in direction d meet a before b?
Before(d, a, b) == IF d = "forward" THEN Older(b, a) ELSE Older(a, b)

\* The rows S in the order of direction d: so many lie before the next.
InOrder(d, S) ==
    [i \in 1 .. Cardinality(S) |->
        CHOOSE l \in S : Cardinality({k \in S : Before(d, k, l)}) = i - 1]

Matches(l, q) ==
    /\ q.synthetic = "hide" => upload[l].source # Synthetic
    /\ q.synthetic = "only" => upload[l].source = Synthetic
    /\ q.synthetic # "only" /\ q.source # AnySource => upload[l].source = q.source
    /\ q.from # NULL => upload[l].start >= q.from
    /\ q.to   # NULL => upload[l].start <= q.to

Visible(q) == {l \in stored : Matches(l, q)}

(* Rows come and go *)

StoreLog(l, u) ==
    /\ l \notin DOMAIN upload
    /\ u \in Uploads[l]
    /\ stored' = stored \cup {l}
    /\ upload' = [k \in DOMAIN upload \cup {l} |-> IF k = l THEN u ELSE upload[k]]

DeleteLog(l) ==
    /\ l \in stored
    /\ stored' = stored \ {l}
    /\ UNCHANGED upload
=============================================================================
