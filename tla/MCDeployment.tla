----------------------------- MODULE MCDeployment -----------------------------
(* Command lines for Deployment: good rules, and each way a rule can be bad. *)
EXTENDS Deployment

CONSTANTS Other,       \* a name that is not the server's address
          Elsewhere    \* a directory that is not the platform's

CommandLine(dir, name, port, texts) ==
    [configDir |-> dir, certHostname |-> name, localPort |-> port,
     allowedClientPorts |-> texts]

MCHostnames == {RemoteIp, Other}
MCDirs == {DefaultDir, Elsewhere}

GoodArgs ==
    { CommandLine({}, RemoteIp, {}, << <<80>>, <<1000, 2000>> >>),
      CommandLine({DefaultDir}, Other, {0}, << <<MaxPort, MaxPort>> >>),
      CommandLine({Elsewhere}, RemoteIp, {443}, << >>) }

BadArgs ==
    { CommandLine({}, RemoteIp, {}, << >>),                        \* no rule at all
      CommandLine({}, RemoteIp, {80}, << <<2000, 1000>> >>),       \* a reversed range
      CommandLine({}, RemoteIp, {80}, << <<MaxPort + 1>> >>),      \* beyond u16
      CommandLine({}, RemoteIp, {80}, << <<1, 2, 3>> >>),          \* a second dash
      CommandLine({}, RemoteIp, {80}, << <<443>>, <<NotANumber, 80>> >>) } \* a missing bound

MCServerArgs == GoodArgs \cup BadArgs
================================================================================
