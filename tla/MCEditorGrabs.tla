--------------------------- MODULE MCEditorGrabs ---------------------------
(* EditorGrabs with two or three editors that may be open at once.          *)
EXTENDS EditorGrabs

=============================================================================
