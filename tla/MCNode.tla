-------------------------------- MODULE MCNode --------------------------------
(***************************************************************************)
(* Instances of Node for TLC, one scenario for each question.  The process *)
(* is stopped in one, so that the others keep to what serving does.        *)
(***************************************************************************)
EXTENDS Node

Tools == [goos |-> "linux", nvidia |-> Absent, amd |-> Absent, rocm |-> Absent,
          apple |-> Absent, memsize |-> Bad]

Nvidia(free, util) == [name |-> "A100", total |-> 4, free |-> free, util |-> util]

\* Two cards, one of which is once reported badly; an AMD card that amd-smi
\* reports once and only rocm-smi the other time; a Mac, and one whose
\* profiler fails.
TwoCards == [Tools EXCEPT !.nvidia = <<Nvidia(3, 10), Nvidia(1, 105)>>]
BadLine == [Tools EXCEPT !.nvidia = <<Nvidia(3, 10), Nvidia(Bad, 0)>>]
AMDNew == [Tools EXCEPT !.nvidia = Failed,
                        !.amd = <<[name |-> "MI300", value |-> 2, unit |-> "gb"]>>]
AMDOld == [Tools EXCEPT !.amd = <<>>,
                        !.rocm = <<[card |-> TRUE, name |-> Blank, total |-> 9, used |-> 2, util |-> 50],
                                   [card |-> TRUE, name |-> Blank, total |-> Bad, used |-> 0, util |-> 0],
                                   [card |-> FALSE, name |-> "system", total |-> Bad, used |-> Bad, util |-> Bad]>>]
Mac == [Tools EXCEPT !.goos = "darwin", !.memsize = 7,
                     !.apple = <<[name |-> "M2", value |-> Bad, unit |-> ""],
                                 [name |-> "eGPU", value |-> 1, unit |-> "mb"]>>]

NoTool == [Tools EXCEPT !.goos = "darwin"]

Quiescent == [seed |-> {"m1"}, installed |-> {"m1"}, detector |-> FALSE, hosts |-> {Tools},
              jobs |-> {}, pulls |-> {}, unloads |-> {}, replies |-> {}, trouble |-> FALSE,
              faults |-> 0, beats |-> FALSE, stop |-> FALSE]

Answering == [Quiescent EXCEPT !.jobs = {1, 2}, !.faults = 1,
    !.replies = {Body(<<"delta", "calls", "done">>), Body(<<"delta", "blank", "garbled">>),
                 [kind |-> "status", status |-> 400, missing |-> FALSE]}]
Crowding == [Quiescent EXCEPT !.jobs = {1, 2, 3}, !.faults = 1, !.replies = {Body(<<"length">>)}]
Pulling == [Quiescent EXCEPT !.pulls = {"m2"}, !.trouble = TRUE, !.faults = 1, !.beats = TRUE]
Unloading == [Pulling EXCEPT !.unloads = {"m1"}, !.faults = 0]
Probing(hosts) == [Quiescent EXCEPT !.detector = TRUE, !.beats = TRUE, !.hosts = hosts]
Dropping == [Quiescent EXCEPT !.faults = 4]
Stopping == [Quiescent EXCEPT !.stop = TRUE, !.faults = 1, !.beats = TRUE, !.jobs = {1},
                              !.replies = {Body(<<"delta", "done">>)}]

AllScenarios == {Answering, Crowding, Pulling, Unloading, Dropping, Stopping,
                 Probing({TwoCards, BadLine}), Probing({AMDNew, AMDOld}), Probing({Mac, NoTool})}

=============================================================================
