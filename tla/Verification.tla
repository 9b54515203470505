---------------------------- MODULE Verification ----------------------------
(***************************************************************************)
(* `sqllens verify-memory` (cli.py, eval/): a golden set is put, question by *)
(* question, to an agent built for the purpose, each answer's SQL is          *)
(* compared with the expected one, and the exit code is drawn from the        *)
(* verdicts.  A comparison reads SQL normalized by sqlglot: here an answer's  *)
(* SQL is the same statement, another one, or no statement.                  *)
(***************************************************************************)
EXTENDS Integers, Sequences, FiniteSets, SequencesExt

CONSTANTS
    MaxCases,    \* bound on the golden set
    Tolerances   \* values of --fail-under, in hundredths of a percent

Whole == 10000   \* 100 %

ASSUME VerificationAssumption == MaxCases \in Nat /\ Tolerances \subseteq 0 .. Whole

None == -1       \* no --fail-under
NaN == -2        \* --fail-under nan: within the range as far as the option can tell

\* `garbled`: one of the two statements cannot be parsed.
Sqls == {"same", "other", "garbled", "none"}
Verdicts == {"PASS", "CHANGED", "ERROR"}

VARIABLES
    verify,    \* the command: its step, options, the golden set and the exit code
    results,   \* the cases' verdicts so far
    answers    \* history: the SQL the agent gave for each case

verifyVars == <<verify, results, answers>>

VerifyInit ==
    /\ verify \in [step : {"start"}, cases : 0 .. MaxCases,
                   tolerance : Tolerances \cup {None, NaN}, exit : {0}]
    /\ results = <<>> /\ answers = <<>>

-----------------------------------------------------------------------------
Exit(code) == verify' = [verify EXCEPT !.step = "over", !.exit = code]

\* The format, the configuration, the key, the golden file, and the set of cases:
\* the first that fails ends the command.  An empty set is refused.
LoadGolden ==
    /\ verify.step = "start"
    /\ \/ verify.cases > 0 /\ verify' = [verify EXCEPT !.step = "asking"]
       \/ Exit(1)      \* format, file, bundle, no case; the profile store or the agent
       \/ Exit(2)      \* configuration or key
    /\ UNCHANGED <<results, answers>>

\* _run_one_case: no SQL, or SQL that cannot be compared, is an error of the case.
Verdict(sql) ==
    CASE sql = "same"  -> "PASS"
      [] sql = "other" -> "CHANGED"
      [] OTHER         -> "ERROR"

\* One question in a conversation of its own.  A run that fails is a verdict of
\* its case only.
AskCase ==
    /\ verify.step = "asking" /\ Len(results) < verify.cases
    /\ \E sql \in Sqls, fails \in BOOLEAN :
          /\ results' = Append(results, IF fails THEN "ERROR" ELSE Verdict(sql))
          /\ answers' = Append(answers, IF fails THEN "none" ELSE sql)
    /\ UNCHANGED verify

Count(verdict) == Cardinality({i \in DOMAIN results : results[i] = verdict})

\* Mutant of ExitCode: the threshold alone decides.
ExitCodeByRate ==
    IF verify.tolerance = None
    THEN IF Count("PASS") = Len(results) THEN 0 ELSE 1
    ELSE IF verify.tolerance # NaN /\ Count("PASS") * Whole >= verify.tolerance * Len(results)
         THEN 0 ELSE 1

\* _exit_for_report
ExitCode ==
    IF \/ Len(results) = 0
       \/ verify.tolerance = None /\ Count("PASS") # Len(results)
       \/ verify.tolerance # None /\ (\/ Count("PASS") = 0 \/ verify.tolerance = NaN
                                      \/ Count("PASS") * Whole < verify.tolerance * Len(results))
    THEN 1 ELSE 0

Report ==
    /\ verify.step = "asking" /\ Len(results) = verify.cases
    /\ Exit(ExitCode)
    /\ UNCHANGED <<results, answers>>

\* Ctrl-C: what is no Exception passes through the cases' handler.
Interrupt ==
    /\ verify.step = "asking"
    /\ Exit(130)
    /\ UNCHANGED <<results, answers>>

VerifyStep == LoadGolden \/ AskCase \/ Report \/ Interrupt

-----------------------------------------------------------------------------
VerifyTypeOK ==
    /\ verify.step \in {"start", "asking", "over"} /\ verify.exit \in {0, 1, 2, 130}
    /\ verify.cases \in 0 .. MaxCases /\ verify.tolerance \in Tolerances \cup {None, NaN}
    /\ results \in Seq(Verdicts) /\ Len(results) <= verify.cases
    /\ answers \in Seq(Sqls) /\ Len(answers) = Len(results)

Agreeing == {i \in DOMAIN answers : answers[i] = "same"}

\* "structured signal, never silent success" (cli.py:665): a green verification has
\* put every case, and the agent's SQL was the expected one in all of them, or with
\* --fail-under in the share it asks for and in one at least; no SQL, and SQL that
\* cannot be read, never counts.
GreenMeansVerified ==
    verify.step = "over" /\ verify.exit = 0 =>
        /\ Len(answers) = verify.cases /\ Agreeing # {}
        /\ IF verify.tolerance = None
           THEN Cardinality(Agreeing) = verify.cases
           ELSE /\ verify.tolerance # NaN
                /\ Cardinality(Agreeing) * Whole >= verify.tolerance * verify.cases
=============================================================================
