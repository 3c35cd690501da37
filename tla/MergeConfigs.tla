---------------------------- MODULE MergeConfigs ----------------------------
(***************************************************************************)
(* ansible/action_plugins/merge_configs.py: the templates of a role and    *)
(* the operator's overrides are read one after the other, and one ini file *)
(* is written.  A file is a sequence of lines: a section header, the first *)
(* line of an assignment, a further line of its value, a blank line.       *)
(* OrderedDicts are sequences of pairs, because the order they are written *)
(* in is the order a service reads.                                        *)
(***************************************************************************)
EXTENDS Naturals, Sequences, SequencesExt, FiniteSetsExt

CONSTANTS
    Sections, Keys, Values,   \* texts of the files; "" is a value
    MaxLines,                 \* lines of a file
    MaxTotal,                 \* lines of all files of a task
    MaxSources                \* sources of a task

Orphan == "TEMPORARY_ORPHAN_VARIABLE_SECTION"
Absent == <<[t |-> "absent"]>>   \* a source that cannot be read

Line == [t : {"section"}, s : Sections] \cup [t : {"key"}, k : Keys, v : Values]
            \cup [t : {"more"}, v : Values \ {""}] \cup [t : {"blank"}]

Files == SeqOf(Line, MaxLines) \cup {Absent}

VARIABLES
    sources,     \* the files of the task
    read,        \* how many have been read
    sections,    \* _sections: <<section, <<key, values>> pairs>> pairs
    text,        \* what write() wrote, as a sequence of at most one
    outcome      \* "running", "ok" or "failed"

vars == <<sources, read, sections, text, outcome>>

-----------------------------------------------------------------------------
(* OrderedDict                                                             *)

Has(dict, k) == \E i \in DOMAIN dict : dict[i][1] = k
At(dict, k) == CHOOSE i \in DOMAIN dict : dict[i][1] = k
Get(dict, k) == dict[At(dict, k)][2]
Put(dict, k, v) == IF Has(dict, k) THEN [dict EXCEPT ![At(dict, k)] = <<k, v>>]
                                   ELSE Append(dict, <<k, v>>)
Items(dict, k) == IF Has(dict, k) THEN Get(dict, k) ELSE <<>>

-----------------------------------------------------------------------------
(* OverrideConfigParser                                                    *)

\* st is the parser: dict (_cur_sections), cur (_cur_section, "" for None), and
\* the assignment that iniparser has not handed over yet (key "" for none).
Fresh == [dict |-> <<>>, cur |-> "", key |-> "", value |-> <<>>, error |-> FALSE]

\* new_section
NewSection(st, s) ==
    [st EXCEPT !.cur = s, !.dict = IF Has(@, s) THEN @ ELSE Put(@, s, <<>>)]

\* assignment: an empty value is [], a key assigned again collects its values.
Assignment(st) ==
    LET to == IF st.cur = "" THEN NewSection(st, Orphan) ELSE st
        value == IF st.value = <<"">> THEN <<>> ELSE st.value
        old == Get(to.dict, to.cur)
    IN  [to EXCEPT !.dict = Put(@, to.cur, Put(old, st.key,
                                  Append(Items(old, st.key), value))),
                   !.key = "", !.value = <<>>]

Flush(st) == IF st.key = "" THEN st ELSE Assignment(st)

\* oslo.config's iniparser, which stops at a line it does not expect.
ParseLine(st, line) ==
    CASE st.error -> st
      [] ~st.error /\ line.t = "blank" -> Flush(st)
      [] ~st.error /\ line.t = "more" ->
            IF st.key = "" THEN [st EXCEPT !.error = TRUE]
                           ELSE [st EXCEPT !.value = Append(@, line.v)]
      [] ~st.error /\ line.t = "section" -> NewSection(Flush(st), line.s)
      [] ~st.error /\ line.t = "key" ->
            [Flush(st) EXCEPT !.key = line.k, !.value = <<line.v>>]

ParseLines(lines) ==
    LET end == FoldLeft(ParseLine, Fresh, lines)
    IN  IF end.error THEN end ELSE Flush(end)

\* A key of the new source replaces all values of the old one.
MergeSection(old, new) == FoldLeft(LAMBDA d, kv : Put(d, kv[1], kv[2]), old, new)

Merge(old, cur) ==
    FoldLeft(LAMBDA d, sec : Put(d, sec[1], MergeSection(Items(d, sec[1]), sec[2])),
             old, cur)

\* Fault: `if not v` is forgotten, and a key without a value is not written.
WriteValuesOnly(k, v) ==
    [i \in DOMAIN v |-> IF i = 1 THEN [t |-> "key", k |-> k, v |-> v[1]]
                                 ELSE [t |-> "more", v |-> v[i]]]

\* write_key_value
WriteValue(k, v) ==
    IF v = <<>> THEN <<[t |-> "key", k |-> k, v |-> ""]>>
    ELSE [i \in DOMAIN v |-> IF i = 1 THEN [t |-> "key", k |-> k, v |-> v[1]]
                                      ELSE [t |-> "more", v |-> v[i]]]

WriteSection(section) ==
    FlattenSeq([i \in DOMAIN section |->
        FlattenSeq([j \in DOMAIN section[i][2] |->
                      WriteValue(section[i][1], section[i][2][j])])])

\* write
WriteConfig(config) ==
    FlattenSeq([i \in DOMAIN config |->
        (IF config[i][1] = Orphan THEN <<>> ELSE <<[t |-> "section", s |-> config[i][1]]>>)
        \o WriteSection(config[i][2]) \o <<[t |-> "blank"]>>])

-----------------------------------------------------------------------------
(* The action                                                              *)

Init ==
    /\ sources \in SeqOf(Files, MaxSources)
    /\ FoldLeft(LAMBDA n, f : n + Len(f), 0, sources) <= MaxTotal
    /\ read = 0
    /\ sections = <<>>
    /\ text = <<>>
    /\ outcome = "running"

\* read_config, which ignores a file it cannot read.
ReadConfig ==
    /\ outcome = "running"
    /\ read < Len(sources)
    /\ LET source == sources[read + 1]
           parsed == ParseLines(source)
       IN  IF source = Absent THEN UNCHANGED <<sections, outcome>>
           ELSE IF parsed.error THEN outcome' = "failed" /\ UNCHANGED sections
           ELSE sections' = Merge(sections, parsed.dict) /\ UNCHANGED outcome
    /\ read' = read + 1
    /\ UNCHANGED <<sources, text>>

\* The temporary file and the copy action; the copy may fail.
WriteResult ==
    /\ outcome = "running"
    /\ read = Len(sources)
    /\ \/ text' = <<WriteConfig(sections)>> /\ outcome' = "ok"
       \/ outcome' = "failed" /\ UNCHANGED text
    /\ UNCHANGED <<sources, read, sections>>

Next == ReadConfig \/ WriteResult

Spec == Init /\ [][Next]_vars

-----------------------------------------------------------------------------
(* Reference: what the lines of a source assign, by their positions.       *)

SectionAt(f, i) ==
    LET headers == {j \in 1 .. i : f[j].t = "section"}
    IN  IF headers = {} THEN Orphan ELSE f[Max(headers)].s

LinesOf(f, s, k) ==
    {i \in DOMAIN f : f[i].t = "key" /\ f[i].k = k /\ SectionAt(f, i) = s}

ValueAt(f, i) ==
    LET last == Max({j \in i .. Len(f) : \A n \in (i + 1) .. j : f[n].t = "more"})
        value == [n \in 1 .. (last - i + 1) |-> f[i + n - 1].v]
    IN  IF value = <<"">> THEN <<>> ELSE value

ValuesIn(f, s, k) ==
    LET order == SetToSortSeq(LinesOf(f, s, k), <)
    IN  [n \in DOMAIN order |-> ValueAt(f, order[n])]

\* The merged file has a key exactly when some source has it in that section,
\* and then all the values, in order, that the last such source gives it
\* (multi-valued options of oslo.config and multi-line values included).
LastSourceWins ==
    outcome = "ok" =>
        \A s \in Sections \cup {Orphan}, k \in Keys :
            LET having == {i \in DOMAIN sources : sources[i] # Absent
                                                   /\ LinesOf(sources[i], s, k) # {}}
            IN  Items(Items(sections, s), k) =
                   IF having = {} THEN <<>> ELSE ValuesIn(sources[Max(having)], s, k)

\* The service reads from the written file exactly what was merged, provided no
\* later source was the first to have keys outside of any section.
FileReadsBack ==
    /\ outcome = "ok"
    /\ Has(sections, Orphan) => sections[1][1] = Orphan
    => ParseLines(text[1]).dict = sections

=============================================================================
