------------------------------- MODULE Dicts -------------------------------
(***************************************************************************)
(* The dicts of the Python code, as functions.                             *)
(***************************************************************************)

\* f[k] = v
Set(f, k, v) == [x \in DOMAIN f \cup {k} |-> IF x = k THEN v ELSE f[x]]

\* old.update(new)
Overlay(new, old) ==
    [k \in DOMAIN new \cup DOMAIN old |->
        IF k \in DOMAIN new THEN new[k] ELSE old[k]]

=============================================================================
