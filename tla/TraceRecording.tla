---------------------------- MODULE TraceRecording ----------------------------
(***************************************************************************)
(* The recorder of Instruments traces                                      *)
(* (.agents/skills/swiftui-expert-skill/scripts/record_trace.py): it runs  *)
(* `xctrace record` in a process group of its own until xctrace ends by    *)
(* itself, a stop file appears or Ctrl+C is pressed, and then gives it a   *)
(* minute to finish the trace.  xctrace is external.                       *)
(***************************************************************************)
EXTENDS Naturals

CONSTANT MaxInterrupts   \* bound on how often Ctrl+C is pressed

VARIABLES
    args,       \* the options that matter
    script,     \* where main is
    exit,       \* how it ended
    xctrace,    \* the process: "none", "recording", "finishing", "exited"
    rc,         \* its return code
    output,     \* what is at the output path
    stop_file,  \* the stop file exists
    interrupts  \* how often Ctrl+C has been pressed

rvars == <<args, script, exit, xctrace, rc, output, stop_file, interrupts>>

Init ==
    /\ args \in [target : {"none", "launch", "attach"}, env : BOOLEAN, stop_file : BOOLEAN,
                 time_limit : BOOLEAN]
    /\ output \in {"none", "another trace"}
    /\ stop_file \in BOOLEAN
    /\ script = "checking" /\ exit = "none" /\ xctrace = "none" /\ rc = "none"
    /\ interrupts = 0

Ends(how) == script' = "ended" /\ exit' = how

-----------------------------------------------------------------------------
(* main *)

Acceptable ==
    /\ args.target # "none"
    /\ args.env => args.target = "launch"
    /\ output = "none"

Refuse ==
    /\ script = "checking" /\ ~Acceptable
    /\ Ends("2")
    /\ UNCHANGED <<args, xctrace, rc, output, stop_file, interrupts>>

\* There is an xctrace to start, or there is none.
Start ==
    /\ script = "checking" /\ Acceptable
    /\ \/ script' = "started" /\ xctrace' = "recording" /\ UNCHANGED exit
       \/ Ends("traceback") /\ UNCHANGED xctrace
    /\ UNCHANGED <<args, rc, output, stop_file, interrupts>>

\* Only from here on is Ctrl+C caught.
Watch ==
    /\ script = "started"
    /\ script' = "watching"
    /\ UNCHANGED <<args, exit, xctrace, rc, output, stop_file, interrupts>>

\* _forward_sigint; a process that is gone already does not matter.
Forwarded == xctrace' = IF xctrace = "recording" THEN "finishing" ELSE xctrace

SeesExit ==
    /\ script = "watching" /\ xctrace = "exited"
    /\ script' = "waiting"
    /\ UNCHANGED <<args, exit, xctrace, rc, output, stop_file, interrupts>>

\* xctrace may have exited since it was polled.
SeesStopFile ==
    /\ script = "watching" /\ args.stop_file /\ stop_file
    /\ Forwarded
    /\ script' = "waiting"
    /\ UNCHANGED <<args, exit, rc, output, stop_file, interrupts>>

\* Slip: after 60 s xctrace is interrupted again, and not killed.
GivesUpGently ==
    /\ script = "waiting" /\ xctrace # "exited"
    /\ Forwarded
    /\ UNCHANGED <<args, script, exit, rc, output, stop_file, interrupts>>

\* After 60 s xctrace is killed, the rest of its group is not.
GivesUp ==
    /\ script = "waiting" /\ xctrace # "exited"
    /\ xctrace' = "exited" /\ rc' = "killed"
    /\ UNCHANGED <<args, script, exit, output, stop_file, interrupts>>

Finish ==
    /\ script = "waiting" /\ xctrace = "exited"
    /\ Ends(IF output = "none" /\ rc = "0" THEN "1" ELSE rc)
    /\ UNCHANGED <<args, xctrace, rc, output, stop_file, interrupts>>

-----------------------------------------------------------------------------
(* The user and xctrace *)

\* KeyboardInterrupt is caught while xctrace is watched, and nowhere else.
CtrlC ==
    /\ script # "ended" /\ interrupts < MaxInterrupts
    /\ interrupts' = interrupts + 1
    /\ IF script = "watching"
       THEN script' = "waiting" /\ Forwarded /\ UNCHANGED exit
       ELSE Ends("traceback") /\ UNCHANGED xctrace
    /\ UNCHANGED <<args, rc, output, stop_file>>

TouchStopFile ==
    /\ stop_file' = TRUE
    /\ UNCHANGED <<args, script, exit, xctrace, rc, output, interrupts>>

\* xctrace creates the trace, comes to its time limit, and ends, with the trace
\* whole and 0, or without; it refuses a path that is taken.
Creates ==
    /\ xctrace = "recording" /\ output = "none"
    /\ output' = "partial"
    /\ UNCHANGED <<args, script, exit, xctrace, rc, stop_file, interrupts>>

TimeLimit ==
    /\ xctrace = "recording" /\ args.time_limit
    /\ xctrace' = "finishing"
    /\ UNCHANGED <<args, script, exit, rc, output, stop_file, interrupts>>

Exits ==
    /\ xctrace \in {"recording", "finishing"}
    /\ xctrace' = "exited"
    /\ \/ rc' = "1" /\ UNCHANGED output
       \/ rc' = "0" /\ output' = IF output = "partial" THEN "whole" ELSE output
    /\ UNCHANGED <<args, script, exit, stop_file, interrupts>>

Main == Refuse \/ Start \/ Watch \/ SeesExit \/ SeesStopFile \/ GivesUp \/ Finish

Next == Main \/ CtrlC \/ TouchStopFile \/ Creates \/ TimeLimit \/ Exits

Spec == Init /\ [][Next]_rvars

\* The script polls twice a second and waits for a minute; nothing is assumed of
\* the user or of xctrace.
FairSpec == Spec /\ WF_rvars(Main)

-----------------------------------------------------------------------------
(* Properties *)

Asked == interrupts > 0 \/ (args.stop_file /\ stop_file)

\* A recording that is asked to stop, at whatever moment and whatever xctrace
\* does, ends; and unless the exception went past it the script has seen xctrace
\* end, and answers 0 only for a trace that is whole.
StopIsObeyed ==
    Asked ~> /\ script = "ended"
             /\ exit \in {"2", "traceback"} \/ xctrace = "exited"
             /\ exit = "0" => output = "whole"
=============================================================================
