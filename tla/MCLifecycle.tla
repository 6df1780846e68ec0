---------------------------- MODULE MCLifecycle ----------------------------
(* Workloads and symmetry for the model-checking runs of Lifecycle.  The   *)
(* process slots are interchangeable, so the safety runs use symmetry; the *)
(* liveness run does not.                                                  *)
EXTENDS Lifecycle, TLC

Symmetric == Permutations(Proc)

\* Every kind of process that writes the state file or starts the service.
SafetyWorkload ==
  {<<"job", "restart">>, <<"cli", "stop">>, <<"reap", "none">>,
   <<"wake", "start">>, <<"knock", "start">>, <<"init", "none">>,
   <<"ack", "none">>}

\* The long controller scripts; nobody acknowledges.
ControllerWorkload ==
  {<<"cli", "stop">>, <<"cli", "update">>, <<"cli", "restart">>,
   <<"cli", "bounce">>, <<"idle", "stop">>, <<"restore", "restore">>,
   <<"job", "start">>, <<"knock", "start">>}

\* A job and a wake.
LiveWorkload == {<<"job", "stop">>, <<"wake", "start">>}

\* The smallest workload that shows the disagreement with the documentation.
StickyWorkload == {<<"job", "restart">>, <<"cli", "stop">>, <<"init", "none">>,
                   <<"reap", "none">>}
=============================================================================
