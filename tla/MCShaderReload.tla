----------------------------- MODULE MCShaderReload -----------------------------
(* The two shaders of ModelView: one with a file it includes, one without. *)
EXTENDS ShaderReload

MCUnit == 1 .. 2
MCFiles == << <<"Dragon.vs", "UniformMatrices">>, <<"Dragon.fs">> >>
MCHandle == 1 .. 2
================================================================================
