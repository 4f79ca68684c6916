------------------------- MODULE CleanFilePathJoin --------------------------
(***************************************************************************)
(* util.CleanFilePathJoin (src/pkg/util/util.go:87-114): the guard that    *)
(* turns the name of an archive entry into a path below a root directory.  *)
(* A string is a sequence of one-character strings.  The standard library  *)
(* calls it makes (strings.Contains, strings.ReplaceAll, strings.Split,    *)
(* path.IsAbs, filepath.Clean, filepath.Join, filepath.ToSlash) are        *)
(* modelled by what they do on a Unix build, where the separator is "/".   *)
(*                                                                         *)
(* The behaviour is one call: the caller picks a root and an entry name,   *)
(* the call returns a path or an error.                                    *)
(***************************************************************************)
EXTENDS Naturals, Sequences, SequencesExt

CONSTANTS
    Roots,    \* the root directories a caller may pass
    DestChars,\* the characters an entry name is made of
    MaxLen    \* the longest entry name enumerated

ASSUME MaxLenAssumption == MaxLen \in Nat

\* Every entry name of at most MaxLen characters.
Dests == UNION {[1..n -> DestChars] : n \in 0..MaxLen}

Slash == <<"/">>
DotDot == <<".", ".">>

-----------------------------------------------------------------------------
(***************************************************************************)
(* The library calls.                                                     *)
(***************************************************************************)

\* strings.Split(s, "/"): the pieces between the separators; Split of ""
\* is [""].
Split(s) ==
    LET seps == <<0>> \o SetToSortSeq({i \in 1..Len(s) : s[i] = "/"}, <)
                      \o <<Len(s) + 1>>
    IN  [k \in 1..Len(seps) - 1 |-> SubSeq(s, seps[k] + 1, seps[k + 1] - 1)]

\* strings.Join(parts, "/").
JoinParts(parts) ==
    FlattenSeq([k \in DOMAIN parts |-> IF k = 1 THEN parts[k]
                                        ELSE Slash \o parts[k]])

\* path.IsAbs: the path starts with "/".
IsAbs(s) == Len(s) > 0 /\ s[1] = "/"

\* filepath.Clean on Unix: drop empty and "." elements, let ".." remove the
\* element before it, drop ".." at the start of a rooted path, keep it at
\* the start of a relative one; "" becomes ".".
Clean(s) ==
    LET parts == SelectSeq(Split(s), LAMBDA p : p # <<>> /\ p # <<".">>)
        step(stack, p) ==
            IF p # DotDot THEN Append(stack, p)
            ELSE IF stack # <<>> /\ Last(stack) # DotDot THEN Front(stack)
            ELSE IF IsAbs(s) THEN stack
            ELSE Append(stack, p)
        body == JoinParts(FoldLeft(step, <<>>, parts))
    IN  IF IsAbs(s) THEN Slash \o body
        ELSE IF body = <<>> THEN <<".">> ELSE body

\* filepath.Join(root, elem): join the non-empty elements, then Clean.
Join(root, elem) ==
    IF root = <<>> THEN (IF elem = <<>> THEN <<>> ELSE Clean(elem))
    ELSE Clean(root \o Slash \o elem)

-----------------------------------------------------------------------------
(***************************************************************************)
(* The function.  It returns [path, err]; err is "" for nil.               *)
(***************************************************************************)

\* Lines 100-104: some "/"-separated part of the name is "..".
HasDotDotPart(d) == Contains(Split(d), DotDot)

\* Mutant: the loop over the parts is left out.
CleanFilePathJoinNoDotDotCheck(root, destDir) ==
    LET d == ReplaceAll(destDir, "\\", "/") IN
    IF Contains(destDir, ":") THEN [path |-> <<>>, err |-> "colon"]
    ELSE IF IsAbs(d) THEN [path |-> <<>>, err |-> "absolute"]
    ELSE [path |-> Join(root, Clean(d)), err |-> ""]

\* Mutant: the colon test is left out.
CleanFilePathJoinNoColonCheck(root, destDir) ==
    LET d == ReplaceAll(destDir, "\\", "/") IN
    IF HasDotDotPart(d) THEN [path |-> <<>>, err |-> "dotdot"]
    ELSE IF IsAbs(d) THEN [path |-> <<>>, err |-> "absolute"]
    ELSE [path |-> Join(root, Clean(d)), err |-> ""]

\* The checks in the order of the code, each an early return; ToSlash is
\* the identity where the separator already is "/".
CleanFilePathJoin(root, destDir) ==
    LET d == ReplaceAll(destDir, "\\", "/") IN
    IF Contains(destDir, ":") THEN [path |-> <<>>, err |-> "colon"]
    ELSE IF HasDotDotPart(d) THEN [path |-> <<>>, err |-> "dotdot"]
    ELSE IF IsAbs(d) THEN [path |-> <<>>, err |-> "absolute"]
    ELSE [path |-> Join(root, Clean(d)), err |-> ""]

-----------------------------------------------------------------------------

VARIABLES root, dest, out

vars == <<root, dest, out>>

NoResult == [path |-> <<>>, err |-> "none"]

Errors == {"", "colon", "dotdot", "absolute", "none"}

\* The characters of a returned path: those of the roots and of the names,
\* with no drive or list separator and no Windows separator.
PathChars == (DestChars \ {":", "\\"}) \cup {"/"} \cup UNION {ToSet(r) : r \in Roots}

TypeOK ==
    /\ root \in Roots
    /\ dest \in Dests
    /\ out \in [path : Seq(PathChars), err : Errors]

\* A caller holds a root and the name of an entry read from an archive.
Init ==
    /\ root \in Roots
    /\ dest \in Dests
    /\ out = NoResult

\* The call.
Call ==
    /\ out = NoResult
    /\ out' = CleanFilePathJoin(root, dest)
    /\ UNCHANGED <<root, dest>>

Spec == Init /\ [][Call]_vars

-----------------------------------------------------------------------------
(***************************************************************************)
(* Properties.                                                             *)
(***************************************************************************)

\* p names root itself or a path below it, for a clean root.
Inside(r, p) ==
    LET R == Clean(r) IN
    \/ p = R
    \/ IsPrefix(IF R = Slash THEN R ELSE R \o Slash, p)
       /\ ~Contains(Split(p), DotDot)

\* CleanFilePathJoin never returns, without an error, a path that leaves
\* the root: whatever an archive entry is called, the file written for it
\* stays inside the extraction directory.
AcceptedStaysInRoot ==
    out.err = "" => Inside(root, out.path)

=============================================================================
