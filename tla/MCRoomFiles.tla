---- MODULE MCRoomFiles ----
(* The files of the application, for the model checker. *)
EXTENDS RoomFiles

MCStores  == {"room.code"}
MCReports == {"crash.log"}
MCValues  == {"roomA", "roomB"}
MCNone    == "absent"
====
