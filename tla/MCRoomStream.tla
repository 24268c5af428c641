--------------------------- MODULE MCRoomStream ---------------------------
(***************************************************************************)
(* RoomStream with a direction of two paths: an introduction, then an      *)
(* exercise that needs it, and on the second, sold path another exercise   *)
(* that needs it.                                                          *)
(***************************************************************************)
EXTENDS RoomStream

MCPaths == <<"basics", "more">>
MCUnitsOf == [basics |-> <<"intro", "exercise">>, more |-> <<"project">>]
MCRequires == [intro |-> {}, exercise |-> {"loops"}, project |-> {"loops"}]
MCTeaches == [intro |-> {"loops"}, exercise |-> {}, project |-> {}]
MCPractices == [intro |-> {}, exercise |-> {"loops"}, project |-> {"loops"}]
=============================================================================
