-------------------------- MODULE MCLibraryStorage --------------------------
EXTENDS LibraryStorage

(* Machines and calls are interchangeable: no operation prefers one. *)
Symmetry == Permutations(Machines) \union Permutations(Calls)

(* Each removal of a keyboard profile remembers a whole list: one at a time. *)
OneRemoval ==
    \A c, d \in Calls : calls[c].op = "reset" /\ calls[d].op = "reset" => c = d
=============================================================================
