----------------------------- MODULE Application -----------------------------
(***************************************************************************)
(* The command loop, Application::run of src/src/app/application.cpp, over  *)
(* everything its input stream will ever hold.                              *)
(*                                                                          *)
(* A line is its words and whether there is nothing else in it: a line with *)
(* other blanks around the words (a carriage return at its end, say) has    *)
(* the words that operator>> finds, but is not equal to "QUIT".             *)
(***************************************************************************)
EXTENDS Integers, Sequences, SequencesExt

CONSTANTS
    Scripts,    \* the inputs: lines, and whether the last one is terminated
    MaxCalls    \* bound on the calls of process_file

\* A line of the input: its words, and whether there is nothing else in it.
AnyLine == [words : Seq(STRING), bare : BOOLEAN]

ASSUME ApplicationAssumption ==
    Scripts \subseteq [lines : Seq(AnyLine), terminated : BOOLEAN]

VARIABLES
    script,     \* history: the input as it was at the start
    lines,      \* what getline has not read yet
    good,       \* input_.good()
    user_input, \* the line last read
    run_at,     \* where run is: read, decide, call or returned
    calls       \* history: the paths process_file was called with

appVars == <<script, lines, good, user_input, run_at, calls>>

Line(words, bare) == [words |-> words, bare |-> bare]
EmptyLine == Line(<< >>, TRUE)

AppInit ==
    /\ script \in Scripts
    /\ lines = script.lines
    /\ good = TRUE
    /\ user_input = EmptyLine
    /\ run_at = "read"
    /\ calls = << >>

-----------------------------------------------------------------------------

\* std::getline: a stream that is not good leaves the string as it is.  The
\* end of the input met before a newline makes the stream not good, with or
\* without a line in front of it.
getline ==
    \/ ~good /\ UNCHANGED <<lines, good, user_input>>
    \/ /\ good /\ lines = << >>
       /\ user_input' = EmptyLine
       /\ good' = FALSE
       /\ UNCHANGED lines
    \/ /\ good /\ lines # << >>
       /\ user_input' = Head(lines)
       /\ lines' = Tail(lines)
       /\ good' = (Len(lines) > 1 \/ script.terminated)

\* run reads the next line, whatever becomes of the stream.
Read ==
    /\ run_at = "read"
    /\ getline
    /\ run_at' = "decide"
    /\ UNCHANGED <<script, calls>>

IsQuit(line) == line = Line(<<"QUIT">>, TRUE)

\* PROCESS with a path; further words are not looked at.
IsProcess(line) == Len(line.words) >= 2 /\ line.words[1] = "PROCESS"

\* QUIT ends the loop.
Quit ==
    /\ run_at = "decide" /\ IsQuit(user_input)
    /\ run_at' = "returned"
    /\ UNCHANGED <<script, lines, good, user_input, calls>>

Delegate ==
    /\ run_at = "decide" /\ ~IsQuit(user_input) /\ IsProcess(user_input)
    /\ Len(calls) < MaxCalls
    /\ calls' = Append(calls, user_input.words[2])
    /\ run_at' = "call"
    /\ UNCHANGED <<script, lines, good, user_input>>

\* MUTANT: a line that is no command ends the loop.
Ignore_Break ==
    /\ run_at = "decide" /\ ~IsQuit(user_input) /\ ~IsProcess(user_input)
    /\ run_at' = "returned"
    /\ UNCHANGED <<script, lines, good, user_input, calls>>

Ignore ==
    /\ run_at = "decide" /\ ~IsQuit(user_input) /\ ~IsProcess(user_input)
    /\ run_at' = "read"
    /\ UNCHANGED <<script, lines, good, user_input, calls>>

\* process_file returns, to the head of the loop.
CallReturns ==
    /\ run_at = "call"
    /\ run_at' = "read"
    /\ UNCHANGED <<script, lines, good, user_input, calls>>

Returned == run_at = "returned" /\ UNCHANGED appVars

AppNext == Read \/ Quit \/ Delegate \/ Ignore \/ CallReturns \/ Returned

AppSpec == AppInit /\ [][AppNext]_appVars

-----------------------------------------------------------------------------
(* Properties.                                                              *)

\* The input has a line that ends the loop.
QuitGiven == \E k \in DOMAIN script.lines : IsQuit(script.lines[k])

\* The paths of the PROCESS lines among the first n that no QUIT precedes.
PathsAmong(text, n) ==
    LET paths[k \in 0 .. Len(text)] ==
            IF k = 0 THEN << >>
            ELSE IF IsProcess(text[k]) /\ \A j \in 1 .. k - 1 : ~IsQuit(text[j])
            THEN Append(paths[k - 1], text[k].words[2])
            ELSE paths[k - 1]
    IN paths[n]

Delegations == PathsAmong(script.lines, Len(script.lines))

\* The calls are those of the PROCESS lines before QUIT, in order, each once
\* and none left out (application.cpp:20-33), for an input that has a QUIT
\* or ends with a newline; see DelegatedOncePerLine for the rest.
CallsFollowInput ==
    QuitGiven \/ script.terminated =>
        /\ IsPrefix(calls, Delegations)
        /\ run_at = "returned" => calls = Delegations

\* Every PROCESS line is delegated once.  The test of the loop says so of a
\* terminated input (src/tests/test_application.cpp:35), but the loop goes
\* on after the input ended (application.cpp:20-21).
DelegatedOncePerLine == Len(calls) <= Len(Delegations)
=============================================================================
