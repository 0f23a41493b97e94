---------------------------- MODULE MCModLoading ----------------------------
(* Instances of ModLoading for TLC. *)
EXTENDS ModLoading

MCName == {"core", "base", "extra", "settings"}

Mod(name, version, dependencies) ==
  [name |-> name, version |-> version, privileged |-> name = "core",
   read_only |-> TRUE, dependencies |-> dependencies]
On(name, type, op, version) ==
  [name |-> name, type |-> type, op |-> op, version |-> version]

Core == Mod("core", 1, {})
Base == Mod("base", 2, {On("core", "required", ">=", 1)})
Extra == Mod("extra", 1, {On("base", "optional", ">", 1),
                          On("core", "required", "any", 1)})

(* Dependencies before, after and around a mod, in versions that suit and  *)
(* that do not; a reserved name, a duplicate and a source that can be      *)
(* written.                                                                *)
MCCatalogs ==
  {<<>>, <<Base, Extra, Core>>, <<Core, Base, Base>>,
   <<Mod("extra", 1, {On("core", "forbidden", "<", 3)}), Core>>,
   <<Mod("base", 1, {On("extra", "optional", "!=", 2)}),
     Mod("extra", 1, {On("base", "required", "=", 1)}), Core>>,
   <<Core, Mod("base", 1, {}), Extra>>,
   <<Mod("settings", 1, {}), Core>>,
   <<[Core EXCEPT !.read_only = FALSE]>>}

Whole(file) == [file |-> file, pos |-> <<0, 0>>, dim |-> <<0, 0>>]
Part(file, x, y, width, height) ==
  [file |-> file, pos |-> <<x, y>>, dim |-> <<width, height>>]

(* Parts of a sheet, one of which is not in it; a file that is missing; an *)
(* image that is reduced and yet larger than a batch.                      *)
MCFrames == [n \in MCName |->
  CASE n = "core" -> <<Part("sheet", 0, 0, 2, 2), Whole("icon"),
                       Part("sheet", 2, 0, 3, 1), Part("sheet", 4, 1, 2, 1)>>
    [] n = "base" -> <<Whole("lost"), Whole("broken"), Whole("icon"),
                       Part("sheet", 1, 0, 4, 2)>>
    [] OTHER -> <<Whole("large")>>]
MCExtent == [file \in {"sheet", "icon", "large", "broken"} |->
  CASE file = "sheet" -> <<5, 2>> [] file = "icon" -> <<3, 2>>
    [] file = "large" -> <<18, 9>> [] file = "broken" -> <<2, 2>>]
=============================================================================
