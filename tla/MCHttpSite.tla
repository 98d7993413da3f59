----------------------------- MODULE MCHttpSite -----------------------------
(* Three contents, two of one size, and two modification times; the site is *)
(* edited twice and loaded twice.                                           *)
EXTENDS HttpSite, TLC

CONSTANTS old, new, big, s1, s2

MCFiles   == {Plain("/index.html"), Plain("/404.html")}
MCAsked   == {Plain("/"), <<"/index.html", TRUE>>, Plain("/404.html"), Plain("/none")}
MCSize    == (old :> 1) @@ (new :> 1) @@ (big :> 2)
MCVersion == {[content |-> c, mtime |-> t] : c \in {old, new}, t \in {0, 1}}
               \cup {[content |-> big, mtime |-> 0]}

MCSymmetry == Permutations({s1, s2}) \cup Permutations({old, new})
=============================================================================
