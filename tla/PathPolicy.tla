----------------------------- MODULE PathPolicy -----------------------------
(***************************************************************************)
(* Paths, and the check of the path_prefix constraint.                     *)
(*                                                                         *)
(* A path is the sequence of what stands between its slashes: "/a/b" is    *)
(* <<"", "a", "b">>, "a//b" is <<"a", "", "b">>, and <<>> is no path.  The *)
(* names that contain "..", such as "..hidden", are a parameter.           *)
(***************************************************************************)
EXTENDS Integers, Sequences

CONSTANTS
  DotDotNames,   \* names with ".." in them
  wd             \* the working directory, an absolute path

ASSUME PathAssumption == ".." \in DotDotNames /\ wd \in Seq(STRING)

Mut_HasDotDot(path) == FALSE
HasDotDot(path) == \E i \in DOMAIN path : path[i] \in DotDotNames

IsAbs(path) == path # <<>> /\ path[1] = ""

\* Where one more name of a path leads from a directory, given by the names from
\* the root on.
enter(dir, name) ==
  CASE name \in {"", "."} -> dir
    [] name = ".." -> SubSeq(dir, 1, Len(dir) - 1)
    [] OTHER -> Append(dir, name)

\* filepath.Clean of an absolute path.
Clean(p) ==
  LET at[i \in 0..Len(p)] == IF i = 0 THEN <<>> ELSE enter(at[i - 1], p[i])
  IN at[Len(p)]

Abs(path) == Clean(IF IsAbs(path) THEN path ELSE wd \o path)

Under(names, dir) == Len(dir) <= Len(names) /\ SubSeq(names, 1, Len(dir)) = dir

Mut_HasPrefix(absPath, absPrefix) ==
  absPath # absPrefix /\ absPrefix # <<>> /\ Under(absPath, absPrefix)

\* The comparison of the two as strings.  To the root, "/", a second slash is
\* added, with which no cleaned path begins.
HasPrefix(absPath, absPrefix) ==
  absPath = absPrefix \/ (absPrefix # <<>> /\ Under(absPath, absPrefix))

enforcePathPrefix(prefix, path) ==
  \/ prefix = <<>> \/ path = <<>>
  \/ ~IsAbs(path) /\ ~HasDotDot(path) /\ HasPrefix(Abs(prefix \o path), Abs(prefix))
=============================================================================
