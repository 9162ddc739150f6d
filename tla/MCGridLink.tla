------------------------------ MODULE MCGridLink ------------------------------
(***************************************************************************)
(* Frames and manifests for the runs of GridLink.  Two packages share the  *)
(* module m1; a zero byte, which the port never delivers, is in an answer.  *)
(***************************************************************************)
EXTENDS GridLink

ManA == <<<<"name", "A">>, <<"mod", "m1", "/packages/a/x">>>>
ManB == <<<<"name", "B">>, <<"own", "/packages/b/y">>, <<"own", "/packages/b/z">>,
          <<"mod", "m1", "/packages/b/y">>>>
ManSeed == <<<<"name", "S">>, <<"mod", "m1", "/packages/s/z">>>>

MCPaths == {"/packages/a/MANIFEST", "/packages/b/MANIFEST", "/programs/p"}
MCManifestPaths == <<"/packages/a/MANIFEST", "/packages/b/MANIFEST">>
MCOnDisk == [p \in MCPaths |-> IF p = "/packages/b/MANIFEST" THEN ManB ELSE <<>>]
MCNoFile == <<>>
MCTorn == <<<<"torn">>>>

Entry(p, text) == <<<<"path", p>>, <<"num", Len(text)>>, <<"nl">>>> \o text
End == <<<<"end">>, <<"nl">>>>

PkgFrame == <<<<"pkg">>, <<"nl">>>> \o Entry("/packages/a/MANIFEST", ManA) \o End
FileFrame == <<<<"file">>, <<"path", "/programs/p">>, <<"nl">>, <<"num", 1>>, <<"nl">>,
               <<"text", "t">>>> \o End
AiFrame == <<<<"ai_ok">>, <<"nl">>, <<"nul">>, <<"text", "t">>, <<"ai_end">>, <<"nl">>>>

MCFrames == {PkgFrame, FileFrame, AiFrame}
MCSpoken == {<<"pkg">>}
==============================================================================
