------------------------------ MODULE FileNamer ------------------------------
(***************************************************************************)
(* The file names of the file system cache (store/fscache/filenamer.go).   *)
(*                                                                         *)
(* Encoded gives each key its base64 text, a sequence of letters; a path   *)
(* is the sequence of its components, each of them a sequence of letters.  *)
(***************************************************************************)
EXTENDS Naturals, Sequences
Seqs == INSTANCE SequencesExt

CONSTANTS Keys,          \* keys of the cache
          Encoded,       \* their base64 text
          NameLimit,     \* longest name that is not split: 255 in the code
          FragmentSize   \* letters in a component of a split name: 48

ASSUME NamerAssumption ==
    /\ Keys # {}
    /\ NameLimit \in Nat /\ FragmentSize \in Nat \ {0}
    /\ Encoded \in [Keys -> Seq(Nat)]
    /\ \A k, l \in Keys : Encoded[k] = Encoded[l] => k = l

\* The loop of fragmentFileName: FragmentSize letters a step, fewer at the end.
Fragments(text) ==
    [i \in 1 .. ((Len(text) + FragmentSize - 1) \div FragmentSize) |->
        SubSeq(text, (i - 1) * FragmentSize + 1,
               IF i * FragmentSize < Len(text) THEN i * FragmentSize ELSE Len(text))]

FileName(key) ==
    IF Len(Encoded[key]) <= NameLimit THEN <<Encoded[key]>>
                                      ELSE Fragments(Encoded[key])

\* The key of a file: the separators are dropped and the text decoded.
KeyFromFileName(path) == CHOOSE key \in Keys : Encoded[key] = Seqs!FlattenSeq(path)

Ancestors(path) == { SubSeq(path, 1, i) : i \in 1 .. Len(path) - 1 }

\* Everything that can be under the root of the cache.
Paths == UNION { Ancestors(FileName(key)) \cup {FileName(key)} : key \in Keys }
=============================================================================
