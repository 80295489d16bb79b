----------------------------- MODULE MCPreparation -----------------------------
(* Instances of Preparation: one launch is given any manifest of a grid and     *)
(* another one of two.  A manifest is its own hash but for the type of it.      *)
EXTENDS Preparation, TLC

CONSTANTS l1, l2, ours, theirs

Manifest(tasks, price, stake) == [tasks |-> tasks, price |-> price, stake |-> stake]

MCHash(m) == ToString(m)

(* Every percentage; prices of a few digits, whole ones too; amounts past what BN takes. *)
Grid ==
    {Manifest(1, 10, stake) : stake \in 0 .. 100}
        \cup {Manifest(tasks, price, 5) :
                 tasks \in {0, 1, 2, 3, 7, 10, 12}, price \in (1 .. 12) \cup {29, 57, 100, 300, 410}}

Small == Manifest(3, 7, 5)

Large == Manifest(10, 10, 5)

Pair == {Small, Manifest(10, 410, 5)}

TwoLaunches == (l1 :> Grid) @@ (l2 :> Pair)

OneLaunch == (l1 :> Grid)

AllHashes == {MCHash(m) : m \in Grid \cup Pair}

(***************************************************************************)
(* Others know these manifests and post the url of either, in any bucket   *)
(* and form, with its own hash or the other's; or a url that is none.      *)
(***************************************************************************)
OthersPairs ==
    {[url |-> Location(e, b, Key(MCHash(m))), hash |-> MCHash(Small)] :
        e \in Endpoints, b \in {ours, theirs}, m \in {Small, Large}}
        \cup {[url |-> <<"some.url">>, hash |-> MCHash(Small)]}
================================================================================
