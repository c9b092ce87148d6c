-------------------------- MODULE MCPackageHistory --------------------------
(* PackageHistory with the plugins, the market and the requests of         *)
(* MCPluginTasks.                                                          *)
EXTENDS PackageHistory, MCPluginTasks

=============================================================================
