-------------------------- MODULE MediaClassifier --------------------------
(***************************************************************************)
(* How a path becomes a movie, an episode, or nothing.  A path is its      *)
(* directories, its file name, whether it ends in a slash, and whether it  *)
(* begins with a word of rsync's own output ("control": total, skipping).  *)
(* A name is a title with a year, as the regular expressions read it; a    *)
(* file name carries what they find in it:                                 *)
(*   mark    "both" for S01E02 or 1x02, "episode" for E02 alone, or "none" *)
(*   lead    the name before that mark                                     *)
(*   dated   the title and year at the start of the stem, if they are there*)
(*   bare    the cleaned stem                                              *)
(* An optional result is a set of at most one element.                     *)
(***************************************************************************)
EXTENDS Integers, Sequences, FiniteSetsExt, SequencesExt

NoYear  == 0
NoTitle == ""

\* Directories that only say what is below them, and season directories, say
\* nothing about a title.
Roles == {"title", "movies", "shows", "season"}
Marks == {"both", "episode", "none"}

PathOK(p) ==
    /\ p.slash \in BOOLEAN /\ p.control \in BOOLEAN
    /\ p.file.video \in BOOLEAN /\ p.file.mark \in Marks
    /\ \A i \in DOMAIN p.dirs : p.dirs[i].role \in Roles

EpisodeMatch(p) ==
    LET f       == p.file
        seasons == {i \in DOMAIN p.dirs : p.dirs[i].role = "season"}
    IN CASE f.mark = "both" -> {<<f.season, f.episode>>}
         [] f.mark = "episode" /\ seasons # {} ->
                {<<p.dirs[Max(seasons)].season, f.episode>>}
         [] OTHER -> {}

ShowTitle(p) ==
    LET titled == {i \in DOMAIN p.dirs : p.dirs[i].role \notin {"shows", "season"}}
    IN IF titled # {} THEN p.dirs[Min(titled)].name ELSE p.file.lead

MovieMatch(p) ==
    LET f      == p.file
        parent == IF p.dirs = <<>> THEN {}
                  ELSE {n \in {Last(p.dirs).name} : /\ Last(p.dirs).role # "movies"
                                                   /\ n.year # NoYear
                                                   /\ n.title # NoTitle}
        contained == \E i \in DOMAIN p.dirs : p.dirs[i].role = "movies"
    IN CASE parent # {} -> parent
         [] parent = {} /\ f.dated.title # NoTitle -> {f.dated}
         [] parent = {} /\ f.dated.title = NoTitle /\ contained /\ f.bare # NoTitle ->
                {[title |-> f.bare, year |-> NoYear]}
         [] OTHER -> {}

\* A match is its dedupe key.  A title stands for all its spellings in upper and
\* lower case, which the key folds into one.  The pages group episodes by the
\* title as it is written, so here one show is written alike in all its paths.
Match(kind, name, season, episode) ==
    [kind |-> kind, title |-> name.title, year |-> name.year,
     season |-> season, episode |-> episode]

\* classify_transfer_path
Classify(p) ==
    IF p.slash \/ ~p.file.video THEN {}
    ELSE IF EpisodeMatch(p) # {}
    THEN {Match("episode", n, e[1], e[2]) :
             e \in EpisodeMatch(p), n \in {m \in {ShowTitle(p)} : m.title # NoTitle}}
    ELSE {Match("movie", n, 0, 0) : n \in MovieMatch(p)}

\* classify_file_list parses the path of a transfer once more, as a plain line.
ClassifyTransfer(p) == IF p.control THEN {} ELSE Classify(p)

\* Is the path below the directory?  (startswith, on a directory with its slash)
Under(dir, p) == IsPrefix(dir.dirs, p.dirs)
=============================================================================
