------------------------------ MODULE MCFsCache ------------------------------
(***************************************************************************)
(* Instances of FsCache for TLC.  Names of up to three letters are kept    *)
(* whole, longer ones are split into components of two letters, so that    *)
(* here too a whole name may be longer than a component.                   *)
(***************************************************************************)
EXTENDS FsCache

MCSize == [v \in Values |-> v]

\* The base64 texts of the keys.
MCEncoded ==
    [k \in Keys |-> CASE k = "short" -> <<1, 2, 3>>
                      [] k = "long" -> <<1, 2, 3, 4>>
                      [] k = "longer" -> <<1, 2, 3, 4, 5>>]

MCEncryptedConns == {[enc |-> 1, sealed |-> TRUE, updateMTime |-> TRUE, timeout |-> 1]}
=============================================================================
