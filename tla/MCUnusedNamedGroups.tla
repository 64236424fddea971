------------------------ MODULE MCUnusedNamedGroups ------------------------
(***************************************************************************)
(* Bounds for UnusedNamedGroups.  r1 is /(?<a>x)(y)(?<b>z)/: an unnamed   *)
(* group sits between its named ones, so group b is number 3 among all   *)
(* capturing groups and 2 among the named; r2 is /(?<a>x)\1/, whose       *)
(* group is used by a numeric backreference; r3 does not parse.  Names    *)
(* include c, which no regex has.  A replacement refers to $<b> or $3.    *)
(* Five callbacks are enough for a literal, a match, a use and a           *)
(* replacement in any order, and for the use to precede the match.        *)
(***************************************************************************)
EXTENDS UnusedNamedGroups

CONSTANTS r1, r2, r3, a, b, c, m1, m2

MCShape ==
  (r1 :> << [name |-> a, backref |-> "none"],
            [name |-> NoName, backref |-> "none"],
            [name |-> b, backref |-> "none"] >>)
  @@ (r2 :> << [name |-> a, backref |-> "number"] >>)
  @@ (r3 :> << [name |-> a, backref |-> "none"] >>)

MCReplaceRefs == {{b}, {3}}
=============================================================================
