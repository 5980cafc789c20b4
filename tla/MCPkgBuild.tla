----------------------------- MODULE MCPkgBuild -----------------------------
(***************************************************************************)
(* Instances of PkgBuild: a library installed to staging and target, and   *)
(* an application configured against it; and, for the order of the steps,  *)
(* these with a host tool that every download waits for and the patching   *)
(* of the application as well.                                             *)
(***************************************************************************)
EXTENDS PkgBuild, TLC

CONSTANTS ext, lib, app

LibAppDeps == (lib :> {}) @@ (app :> {lib})
NoPatchDeps == (lib :> {}) @@ (app :> {})
LibAppInstalls == (lib :> {"staging", "target"}) @@ (app :> {"target"})

ThreeDeps == (ext :> {}) @@ (lib :> {}) @@ (app :> {lib})
ThreePatchDeps == (ext :> {}) @@ (lib :> {}) @@ (app :> {ext})
ThreeInstalls == (ext :> {"host"}) @@ (lib :> {"staging"}) @@ (app :> {"target"})

All == <<"all", World>>

Rebuild == {<<All>>, <<<<"rebuild", lib>>, All>>}
WithDirclean == {<<All>>, <<<<"dirclean", app>>>>, <<<<"reconfigure", app>>, All>>}
=============================================================================
