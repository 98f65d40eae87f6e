--------------------------- MODULE GoalResolution ---------------------------
(***************************************************************************)
(* Web mode of a Goal, without Kernel persistence: the text of a Goal is   *)
(* interpreted (goal-interpreter.ts), the interpretation becomes criteria  *)
(* and a bounded list of queries (goal-planner.ts), and every query that   *)
(* succeeds adds candidates that are measured against the criteria         *)
(* (goal-resolver.ts).                                                     *)
(*                                                                         *)
(* A text is the set of phrases the interpreter looks for, a page the set  *)
(* of tokens it contains; a query is named by what it asks for, since all  *)
(* of them begin with the same category.                                   *)
(***************************************************************************)
EXTENDS Naturals, Sequences, FiniteSets, SequencesExt

CONSTANTS
    Texts,       \* Goal texts, each a set of phrases
    Pages,       \* result pages, each a set of tokens
    MaxQueries   \* 16 in the code: "Bound total queries per plan"

VARIABLES
    text,        \* the Goal text being resolved
    queries,     \* the plan's queries
    asked,       \* how many queries of the plan have been executed
    found        \* pages collected, by URL

goalVars == <<text, queries, asked, found>>

NotStated == "none"
first(t, choices, otherwise) ==
    LET hits == SelectSeq(choices, LAMBDA c : c[1] \in t)
    IN IF hits = <<>> THEN otherwise ELSE hits[1][2]

-----------------------------------------------------------------------------
(* The interpreter: the first pattern that occurs decides a constraint.    *)

hours(t)     == first(t, <<<<"20 horas", "20">>, <<"40 horas", "40">>>>, NotStated)
salary(t)    == first(t, <<<<"600 euros", "600">>>>, NotStated)
frequency(t) == first(t, <<<<"al mes", "monthly">>, <<"por semana", "weekly">>, <<"por hora", "hourly">>>>, NotStated)
contractType(t) == first(t, <<<<"tiempo parcial", "part-time">>, <<"tiempo completo", "full-time">>,
                              <<"freelance", "freelance">>, <<"contrato", "contract">>>>, NotStated)
remote(t)    == "remoto" \in t
halfDay(t)   == t \cap {"media jornada", "jornada parcial", "medio tiempo"} # {}

-----------------------------------------------------------------------------
(* The planner.                                                            *)

\* The significant tokens of each criterion; a remote preference is asked for but not measured.
criteria(t) ==
    (IF hours(t) # NotStated THEN {{hours(t), "horas"}} ELSE {})
    \cup (IF salary(t) # NotStated THEN {{salary(t), "eur"} \cup ({frequency(t)} \ {NotStated})} ELSE {})
    \cup (IF contractType(t) # NotStated THEN {{contractType(t)}} ELSE {})

halfDayQueries == <<"media jornada", "jornada parcial", "medio tiempo">>
hoursQueries(t) ==
    IF hours(t) # NotStated
    THEN <<"base", hours(t) \o "h", hours(t) \o "hrs">> \o (IF hours(t) = "20" THEN halfDayQueries ELSE <<>>)
    ELSE IF halfDay(t) THEN halfDayQueries ELSE <<>>
salaryQueries(t) ==
    IF salary(t) = NotStated THEN <<>>
    ELSE (CASE frequency(t) = "monthly" -> <<"600 al mes", "600 mensual", "600 EUR mensual">>
            [] frequency(t) = "weekly" -> <<"600 por semana", "600 semanal", "600 EUR semanal">>
            [] frequency(t) = "hourly" -> <<"600 por hora", "600 euros por hora", "600 EUR horario">>
            [] OTHER -> <<>>) \o <<"600EURsign", "600 EUR", "600 euros">>
modalityQueries(t) == IF remote(t) THEN <<"remote", "remoto", "trabajo desde casa">> ELSE <<>>
contractQueries(t) ==
    CASE contractType(t) = NotStated -> <<>>
      [] contractType(t) = "part-time" -> <<"part-time", "tiempo parcial", "medio tiempo">>
      [] contractType(t) = "full-time" -> <<"full-time", "tiempo completo">>
      [] contractType(t) = "freelance" -> <<"freelance", "freelance", "autonomo">>
      [] OTHER -> <<contractType(t)>>

\* Mutant: the bound is applied before duplicates are removed and one query too early.
createQueries_tight(t) ==
    LET all == hoursQueries(t) \o salaryQueries(t) \o modalityQueries(t) \o contractQueries(t)
    IN SubSeq(all, 1, IF Len(all) < MaxQueries THEN Len(all) ELSE MaxQueries - 1)

\* The places at which a query of a list occurs for the first time.
firstPlaces(qs) == {i \in DOMAIN qs : \A j \in 1..i - 1 : qs[j] # qs[i]}

\* The place of the k-th query that is not a duplicate.
placeOf(qs, k) == CHOOSE i \in firstPlaces(qs) : Cardinality(firstPlaces(qs) \cap 1..i) = k

\* Duplicates go, then the list is cut.
createQueries(t) ==
    LET all == hoursQueries(t) \o salaryQueries(t) \o modalityQueries(t) \o contractQueries(t)
        distinct == Cardinality(firstPlaces(all))
    IN [k \in 1..(IF distinct < MaxQueries THEN distinct ELSE MaxQueries) |-> all[placeOf(all, k)]]

-----------------------------------------------------------------------------
(* The resolver.                                                           *)

criterionTokensMatch(criterion, page) == criterion \subseteq page

\* Partial as soon as one page found meets one criterion; there is no better verdict.
resolutionState ==
    IF \E page \in found, criterion \in criteria(text) : criterionTokensMatch(criterion, page)
    THEN "partial" ELSE "no_match"

GoalInit == text \in Texts /\ queries = createQueries(text) /\ asked = 0 /\ found = {}

\* One query: the pages it returns join those already found under their URL.
Search(pages) ==
    /\ asked < Len(queries)
    /\ asked' = asked + 1
    /\ found' = found \cup pages
    /\ UNCHANGED <<text, queries>>

\* A query that throws is logged and the next one runs.
SearchFails ==
    /\ asked < Len(queries)
    /\ asked' = asked + 1
    /\ UNCHANGED <<text, queries, found>>

GoalNext ==
    \/ \E pages \in SUBSET Pages : Search(pages)
    \/ SearchFails

GoalSpec == GoalInit /\ [][GoalNext]_goalVars

-----------------------------------------------------------------------------

(* The bound never silences the user: however many phrasings the other     *)
(* constraints take, each constraint a criterion will be measured by is    *)
(* asked for within the limit, and so is a remote preference, if need be   *)
(* in a phrasing another constraint has too. A Goal that will be measured  *)
(* is searched for, and no verdict precedes its searches.                  *)
EveryConstraintIsAsked ==
    LET Asked(qs) == qs # <<>> => ToSet(qs) \cap ToSet(queries) # {}
    IN /\ Asked(hoursQueries(text)) /\ Asked(salaryQueries(text))
       /\ Asked(modalityQueries(text)) /\ Asked(contractQueries(text))
       /\ criteria(text) # {} => queries # <<>>
       /\ resolutionState = "partial" => asked > 0
=============================================================================
