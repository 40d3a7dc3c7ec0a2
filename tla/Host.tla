-------------------------------- MODULE Host --------------------------------
(***************************************************************************)
(* What a script reaches the machine and the network with: the functions   *)
(* of the host API whose correctness depends on somebody else - a child    *)
(* process (Shell), a server (Download), the service control manager       *)
(* (Service), a guest (Scenario). A script calls one function at a time    *)
(* and they share no state, so a behaviour is a call of one of them with   *)
(* the others off.                                                         *)
(***************************************************************************)
EXTENDS Shell, Download, Service, Scenario

hostVars == << shellVars, downloadVars, serviceVars, scenarioVars >>

HostInit ==
  \/ ShellInit /\ DownloadOff /\ ServiceOff /\ ScenarioOff
  \/ ShellOff /\ DownloadInit /\ ServiceOff /\ ScenarioOff
  \/ ShellOff /\ DownloadOff /\ ServiceInit /\ ScenarioOff
  \/ ShellOff /\ DownloadOff /\ ServiceOff /\ ScenarioInit

HostNext ==
  \/ ShellNext /\ UNCHANGED << downloadVars, serviceVars, scenarioVars >>
  \/ DownloadNext /\ UNCHANGED << shellVars, serviceVars, scenarioVars >>
  \/ ServiceNext /\ UNCHANGED << shellVars, downloadVars, scenarioVars >>
  \/ ScenarioNext /\ UNCHANGED << shellVars, downloadVars, serviceVars >>

HostSpec == HostInit /\ [][HostNext]_hostVars /\ ShellFairness

\* The shell alone, for what only it is asked.
ShellSpec ==
  /\ ShellInit /\ DownloadOff /\ ServiceOff /\ ScenarioOff
  /\ [][HostNext]_hostVars
  /\ ShellFairness
=============================================================================
