----------------------------- MODULE MergeYaml -----------------------------
(***************************************************************************)
(* ansible/action_plugins/merge_yaml.py: nested dicts of several documents *)
(* merged into one, lists replaced or, with extend_lists, extended.        *)
(*                                                                         *)
(* A value is a scalar (null is one), a dict, or a list.  A list has an    *)
(* identity, because `conf[k] = v` keeps the list object of the document   *)
(* and `conf[k].extend(v)` changes it in place, and because an alias in a  *)
(* document gives two keys the same object.  What was appended to an       *)
(* object is noted in order and put together when the result is dumped.    *)
(***************************************************************************)
EXTENDS Naturals, Sequences, SequencesExt, FiniteSetsExt

CONSTANTS
    Tasks,          \* sequences of documents to be merged
    Paths           \* the paths of the documents, as sequences of keys

Scalar(x) == [t |-> "scalar", val |-> x]
List(id, items) == [t |-> "list", id |-> id, val |-> items]
Dict(f) == [t |-> "dict", val |-> f]
Empty == Dict(<<>>)
Absent == [t |-> "absent"]   \* a source that cannot be read

VARIABLES
    aliases,        \* keys of one document with the same list share it
    sources,        \* documents of the task; their lists have identities
    extend_lists,
    read,           \* documents merged so far
    output,         \* the dict under construction
    extended,       \* <<id, items>> of every extend() so far
    outcome         \* "running", "ok", "failed"

vars == <<aliases, sources, extend_lists, read, output, extended, outcome>>

-----------------------------------------------------------------------------
(* update_nested_conf                                                      *)

Set(f, k, v) == [x \in DOMAIN f \cup {k} |-> IF x = k THEN v ELSE f[x]]

\* The state of the recursion: the dict, the extensions, and an exception.
Step(conf, ext, err) == [conf |-> conf, ext |-> ext, err |-> err]

RECURSIVE Update(_, _, _, _)

\* Fault: a dict replaces what is there.
UpdateKeyFlat(st, k, v, extend) ==
    IF st.err THEN st
    ELSE IF v.t # "dict" /\ extend /\ k \in DOMAIN st.conf /\ st.conf[k].t = "list"
      THEN IF v.t # "list" THEN [st EXCEPT !.err = TRUE]
           ELSE [st EXCEPT !.ext = Append(@, <<st.conf[k].id, v.val>>)]
    ELSE [st EXCEPT !.conf = Set(@, k, v)]

\* The loop's body.  A dict over a scalar or a list has no items to assign:
\* TypeError.  An empty dict over them assigns nothing and leaves them.
UpdateKey(st, k, v, extend) ==
    IF st.err THEN st
    ELSE IF v.t = "dict"
      THEN LET below == IF k \in DOMAIN st.conf THEN st.conf[k] ELSE Empty
               sub == Update(below.val, v.val, st.ext, extend)
           IN  IF below.t = "dict"
               THEN Step(Set(st.conf, k, Dict(sub.conf)), sub.ext, sub.err)
               ELSE [st EXCEPT !.err = DOMAIN v.val # {}]
    ELSE IF k \in DOMAIN st.conf /\ st.conf[k].t = "list" /\ extend
      THEN IF v.t # "list" THEN [st EXCEPT !.err = TRUE]
           ELSE [st EXCEPT !.ext = Append(@, <<st.conf[k].id, v.val>>)]
    ELSE [st EXCEPT !.conf = Set(@, k, v)]

\* update_nested_conf; the keys in some order of the document.
Update(conf, update, ext, extend) ==
    FoldLeft(LAMBDA st, k : UpdateKey(st, k, update[k], extend),
             Step(conf, ext, FALSE), SetToSeq(DOMAIN update))

-----------------------------------------------------------------------------
(* The action                                                              *)

\* yaml.safe_load: every list of a document is an object of its own, but where
\* there are aliases, lists with the same items are the same object.
RECURSIVE Load(_, _)
Load(v, path) ==
    CASE v.t = "dict" -> Dict([k \in DOMAIN v.val |-> Load(v.val[k], Append(path, k))])
      [] v.t = "list" -> List(IF aliases THEN <<Head(path), v.val>> ELSE path, v.val)
      [] OTHER -> v

Init ==
    /\ aliases \in BOOLEAN
    /\ \E docs \in Tasks :
          sources = [i \in DOMAIN docs |-> Load(docs[i], <<i>>)]
    /\ extend_lists \in BOOLEAN
    /\ read = 0
    /\ output = <<>>
    /\ extended = <<>>
    /\ outcome = "running"

\* read_config and one round of the loop in run: a document that is missing,
\* empty or null is {}.
MergeSource ==
    /\ outcome = "running"
    /\ read < Len(sources)
    /\ LET source == sources[read + 1]
           falsy == source.t = "absent" \/ (source.t = "scalar" /\ source.val = "null")
           st == Update(output, IF source.t = "dict" THEN source.val ELSE <<>>,
                        extended, extend_lists)
       IN  IF st.err \/ (source.t # "dict" /\ ~falsy)
           THEN outcome' = "failed" /\ UNCHANGED <<output, extended>>
           ELSE output' = st.conf /\ extended' = st.ext /\ UNCHANGED outcome
    /\ read' = read + 1
    /\ UNCHANGED <<aliases, sources, extend_lists>>

\* What a list object holds when the output is dumped.
Items(l) ==
    FoldLeft(LAMBDA items, e : IF e[1] = l.id THEN items \o e[2] ELSE items, l.val, extended)

\* yaml.dump and the copy action.
Dump ==
    /\ outcome = "running"
    /\ read = Len(sources)
    /\ outcome' = "ok"
    /\ UNCHANGED <<aliases, sources, extend_lists, read, output, extended>>

Next == MergeSource \/ Dump

Spec == Init /\ [][Next]_vars

-----------------------------------------------------------------------------
(* Reference: what is at a path, document by document.                     *)

\* Where a path leads in a value.
AtPath(value, path) ==
    FoldLeft(LAMBDA v, k : IF v.t = "dict" /\ k \in DOMAIN v.val THEN v.val[k] ELSE Absent,
             value, path)

\* A document that has something else than a dict on the way to the path.
Cuts(doc, path) ==
    \E n \in 1 .. (Len(path) - 1) :
        AtPath(doc, SubSeq(path, 1, n)).t \in {"scalar", "list"}

\* What is at the path when a document is merged over it: kind and content.
Plain(v) == [t |-> v.t, val |-> IF v.t \in {"scalar", "list"} THEN v.val ELSE ""]
Over(old, doc, path) ==
    LET new == Plain(AtPath(doc, path))
    IN  CASE Cuts(doc, path) -> Plain(Absent)
          [] ~Cuts(doc, path) /\ new.t = "absent" -> old
          [] ~Cuts(doc, path) /\ new.t = "dict" -> IF old.t = "absent" THEN new ELSE old
          [] ~Cuts(doc, path) /\ new.t \in {"scalar", "list"} ->
                IF extend_lists /\ old.t = "list" /\ new.t = "list"
                THEN [new EXCEPT !.val = old.val \o @] ELSE new

Merged(path, n) ==
    FoldLeft(LAMBDA old, doc : Over(old, doc, path), Plain(Absent), SubSeq(sources, 1, n))

Shown(v) == IF v.t = "list" THEN [t |-> "list", val |-> Items(v)] ELSE Plain(v)

\* At every path the result has what the last document with that path has;
\* dicts are joined, and with extend_lists a list is the items of all documents
\* since the path last had another kind of value, in the documents' order.  ("An
\* equivalent key has the same parents": no other key's list is extended, unless
\* a document uses aliases.)
MergedByPath ==
    outcome = "ok" /\ (aliases => ~extend_lists) =>
        \A path \in Paths : Shown(AtPath(Dict(output), path)) = Merged(path, Len(sources))

\* The task fails exactly when the document just read is no dict, has a non-empty
\* dict where a scalar or a list is, or with extend_lists a scalar where a list
\* is.
FailsOnConflict ==
    LET doc == sources[read]
    IN  read > 0 =>
          (outcome = "failed" <=>
             \/ doc.t = "list" \/ (doc.t = "scalar" /\ doc.val # "null")
             \/ \E path \in Paths :
                   LET old == Merged(path, read - 1)
                       new == AtPath(doc, path)
                   IN  \/ /\ old.t \in {"scalar", "list"}
                          /\ new.t = "dict" /\ DOMAIN new.val # {}
                       \/ extend_lists /\ old.t = "list" /\ new.t = "scalar")

=============================================================================
