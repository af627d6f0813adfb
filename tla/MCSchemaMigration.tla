------------------------- MODULE MCSchemaMigration -------------------------
(* Processes that open brains of several ages: a new one and one from      *)
(* before V16; both may wait for a vault at 21.                            *)
EXTENDS SchemaMigration

CONSTANTS desktop, headless

\* The desktop application and the headless server.
DesktopAndServer == {desktop, headless}
MCRooted == {desktop}
MCLevels == {0, 15}
=============================================================================
