------------------------------- MODULE MCValues -------------------------------
(* Small instances of Values for TLC. *)
EXTENDS Values, TLC

CONSTANTS o1, o2, o3, n, s, t, u

Texts == s :> <<"k">> @@ t :> <<"k">> @@ u :> <<"k", "k">>

Contents(kinds, values, lengths) ==
  UNION {[kind : {k}, content : IF k = "map" THEN {c \in UNION {[1 .. l -> values] : l \in lengths} :
                                                     Len(c) % 2 = 0 /\ (c # <<>> => c[1] \in Scalar)}
                                ELSE UNION {[1 .. l -> values] : l \in lengths}] : k \in kinds}

Leaf == [kind |-> "list", content |-> <<>>]

Graph(X, Y, Z) ==
  {[kind    |-> o1 :> i.kind @@ o2 :> j.kind @@ o3 :> k.kind,
    content |-> o1 :> i.content @@ o2 :> j.content @@ o3 :> k.content] : i \in X, j \in Y, k \in Z}

(* Two things of any kind, of up to two elements. *)
Two == LET C == Contents(Kind, {o1, o2, s}, 0 .. 2) IN Graph(C, C, {Leaf})

(* Three: one of two elements, one of one, one of any kind. *)
Three == LET C == Contents({"list", "inst"}, {o2, o3, t}, 2 .. 2)
             D == Contents({"list", "map", "inst"}, {o1, o2, s}, 2 .. 2)
         IN  Graph(C, Contents({"list", "inst"}, {o1, o2, o3}, 1 .. 1), D)

Graphs2 == Two \cup Three
=============================================================================
