---------------------------- MODULE MCIdMapping -----------------------------
(* Two attributes of different objects, whose ids may collide, and a key    *)
(* whose only slash is its first character, for the one cluster.  An        *)
(* attribute gives two ids, or lacks one, or has one that is no number; the *)
(* cluster gives one of two pairs, so the files may contradict each other.  *)
EXTENDS IdMapping

MCCluster == <<"", "sdfObject">>

MCPaths == {<<"#", "sdfObject", "OnOff", "sdfProperty", "OnOff">>,
            <<"#", "sdfObject", "Level", "sdfProperty", "CurrentLevel">>,
            MCCluster}

MCPairs == [matter : Ids, oma : Ids]

MCMalformed == {[matter |-> Absent, oma |-> 1], [matter |-> 1, oma |-> NotANumber]}

MCSections ==
  {section \in [Paths -> MCPairs \cup MCMalformed] :
     section[MCCluster] \in {[matter |-> 1, oma |-> 6], [matter |-> 7, oma |-> 1]}}
=============================================================================
