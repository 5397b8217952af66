----------------------------- MODULE MCLogViews -----------------------------
(***************************************************************************)
(* An instance of LogViews: three logs of two sources and the synthetic    *)
(* one, two of them tied in time; a film that lies in two layouts, an      *)
(* episode whose directory goes, a file whose name reads as rsync's output.*)
(***************************************************************************)
EXTENDS LogViews

CONSTANTS nas, vps, check, any

Dir(role, title, year) == [role |-> role, name |-> [title |-> title, year |-> year], season |-> 1]

Film(title, year) ==
    [video |-> TRUE, mark |-> "none", season |-> 0, episode |-> 0,
     lead  |-> [title |-> "", year |-> 0], dated |-> [title |-> title, year |-> year],
     bare  |-> title]

EpisodeFile == [Film("", 0) EXCEPT !.mark = "episode", !.episode = 1]
NoFile      == [Film("", 0) EXCEPT !.video = FALSE]

PathOf(dirs, file, slash, control) ==
    [dirs |-> dirs, file |-> file, slash |-> slash, control |-> control]

Movies == Dir("movies", "Movies", 0)
HeatDir == PathOf(<<Movies, Dir("title", "Heat", 1995)>>, Film("", 0), FALSE, FALSE)
HeatFile == PathOf(<<Movies>>, Film("Heat", 1995), FALSE, FALSE)
Recall  == PathOf(<<>>, Film("Total Recall", 1990), FALSE, TRUE)
Dark    == <<Dir("shows", "TV", 0), Dir("title", "Dark", 0)>>
DarkE1  == PathOf(Append(Dark, Dir("season", "", 0)), EpisodeFile, FALSE, FALSE)
DarkDir == PathOf(Dark, NoFile, TRUE, FALSE)

Line(form, p) == [form |-> form, path |-> p]

Log(source, start, exit, dry, lines) ==
    [source |-> source, start |-> start, end |-> start + 1, exit |-> exit, dry |-> dry,
     lines |-> lines]

MCUploads ==
    <<{Log(nas, 4, "nonzero", FALSE,
           <<Line("plain", HeatDir), Line("itemized", DarkE1), Line("summary", DarkDir)>>)},
      {Log(nas, 4, "zero", FALSE,
           <<Line("itemized", HeatFile), Line("deleting", DarkDir), Line("deleting", HeatDir),
             Line("itemized", Recall)>>),
       Log(check, 4, "zero", FALSE, <<Line("plain", HeatFile)>>)},
      {Log(nas, 8, "nonzero", FALSE,
           <<Line("attributes", HeatDir), Line("deleting", HeatFile), Line("plain", DarkE1)>>),
       Log(vps, 7, "null", TRUE, <<Line("deleting", HeatDir), Line("plain", Recall)>>),
       Log(nas, 9, "null", FALSE, <<>>)}>>

\* What an older version left: nothing, or a film and three rows it made of
\* deletion lines, one of the film, one of an episode, one of no media.
Row(p, phantom) ==
    [path |-> p, source |-> nas, log |-> 0, first |-> 2, removed |-> 0, phantom |-> phantom]

Key(kind, title, year, n) ==
    [kind |-> kind, title |-> title, year |-> year, season |-> n, episode |-> n]

Empty == [k \in {} |-> 0]

MCLegacies ==
    {Empty,
     Put(Put(Put(Put(Empty, Key("movie", "Heat", 1995, 0), Row(HeatDir, FALSE)),
                 Key("movie", "deleting Movies/Heat", 1995, 0), Row(HeatFile, TRUE)),
             Key("episode", "deleting TV", 0, 1), Row(DarkE1, TRUE)),
         Key("movie", "deleting extras", 0, 0), Row(DarkDir, TRUE))}

All(synthetic, source, from, to) ==
    [synthetic |-> synthetic, source |-> source, from |-> from, to |-> to]

MCQueries == {All("hide", any, 0, 0), All("show", nas, 0, 7)}
=============================================================================
