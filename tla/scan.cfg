SPECIFICATION ScanSpec
CONSTANTS
  src = src
  package = package
  module = module
  lib = lib
  stray = stray
  build = build
  Entries = {src, package, module, lib, stray, build}
  Top = src
  Package = package
  Parent <- MCParent
  Modules = {module, stray}
  Pruned = {build}
  MaxChanges = 2
  None = None
INVARIANT ScanTypeOK
INVARIANT StableUnsafeRefused
INVARIANT RefusedForReason
CHECK_DEADLOCK FALSE
