---------------------------- MODULE MCSourceScan ----------------------------
EXTENDS SourceScan, TLC
CONSTANTS src, package, module, lib, stray, build
MCParent == package :> src @@ module :> package @@ lib :> src @@ stray :> lib @@ build :> src
=============================================================================
