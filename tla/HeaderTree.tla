----------------------------- MODULE HeaderTree -----------------------------
(***************************************************************************)
(* Headers, their parents and heights, and what it means that a set of     *)
(* them is one chain.                                                      *)
(*                                                                         *)
(* A header is identified with its hash, which fixes its parent hash and   *)
(* its height.  Nothing says that the height a header claims is its        *)
(* parent's plus one: providers may serve malformed headers.               *)
(***************************************************************************)
EXTENDS Naturals

CONSTANTS
    Blocks,         \* headers
    None,           \* Option::None
    Parent,         \* parent_hash of each header (None: no such header)
    Height          \* the height each header claims

ASSUME NoneAssumption == None \notin Blocks
ASSUME ParentAssumption == Parent \in [Blocks -> Blocks \cup {None}]
ASSUME HeightAssumption == Height \in [Blocks -> Nat]

\* A header follows another by hash and by height.
Links(child, parent) ==
    /\ Parent[child] = parent
    /\ Height[child] = Height[parent] + 1

\* A set of headers without fork or hole: one at a height, and each but the lowest
\* follows another.
OneChain(S) ==
    /\ \A b, c \in S : Height[b] = Height[c] => b = c
    /\ \A b, c \in S : Height[c] < Height[b] => \E p \in S : Links(b, p)

IsTop(b, S) == b \in S /\ \A c \in S : Height[c] <= Height[b]
=============================================================================
