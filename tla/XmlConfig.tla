----------------------------- MODULE XmlConfig -----------------------------
(***************************************************************************)
(* The configuration file (xmlConfig), which outlives the process: what    *)
(* createXML and the insert functions write, and what local_server and     *)
(* HttpServer read when a process starts. A file is known by its elements  *)
(* and their texts. Nobody calls the functions that write and the query:   *)
(* here a program does, with any values, before and after the reads.       *)
(*                                                                         *)
(* A missing element, or one with an empty text (tinyxml2 drops the empty  *)
(* text when it loads), gives a null pointer, with which no read goes on.  *)
(***************************************************************************)
EXTENDS Naturals, Sequences

CONSTANTS
  Values,       \* texts
  NoFile,       \* what is there when no file can be loaded
  Blank,        \* the empty text
  Long,         \* a number of ten digits or more
  BlankFields,  \* the fields that are empty at times
  MaxInserts,   \* bound: the platforms, and the texts of one name, in the file
  MaxPlatforms  \* bound: the platforms read

ASSUME XmlConfigAssumption ==
  /\ BlankFields \subseteq {"ID", "realm", "IP", "password"}
  /\ {Blank, Long} \cap Values = {} /\ Blank # Long
  /\ MaxInserts \in Nat /\ MaxPlatforms \in Nat

Attributes == {"ID", "realm"}
Numbers    == {"port", "expries", "HeartbeatCycle", "keepalive", "aliveInterval", "RTCP"}
Platform   == Attributes \union {"IP", "password"} \union Numbers
Written    == {"ID", "realm", "protocol", "IP", "port", "password", "Authentication"}
Local      == Written \union {"videoNum"}

VARIABLES
  file,            \* config.xml, or NoFile if it cannot be loaded
  process,         \* "up", or the function in which it went down
  m_platformList,
  m_local,         \* what the server has read about itself; <<>> before
  shipped,         \* history: the file is the one that comes with the program, with insertions
  given            \* history: the platforms in the file, as they were given

vars == <<file, process, m_platformList, m_local, shipped, given>>

\* All elements have that text, one of them may have another.
Plain(fields, v) == [f \in fields |-> v]

Filled(fields) ==
  UNION {{Plain(fields, v), [Plain(fields, v) EXCEPT !["port"] = Long]}
           \union {[Plain(fields, v) EXCEPT ![f] = Blank] : f \in BlankFields} : v \in Values}

Configuration(http, local, servers) == [http |-> http, local |-> local, SubRealm |-> servers]

Once(fields, v) == [f \in fields |-> <<v>>]

Init ==
  /\ \E v \in Values :
       \/ /\ file = Configuration(TRUE, Once(Local, v), <<Plain(Platform, v)>>)
          /\ shipped = TRUE /\ given = <<Plain(Platform, v)>>
       \/ file = NoFile /\ shipped = FALSE /\ given = <<>>
  /\ process = "up" /\ m_platformList = <<>> /\ m_local = <<>>

-----------------------------------------------------------------------------
(* Writing.                                                                *)

\* A file that cannot be opened for writing stays as it is.
createXML ==
  /\ process = "up"
  /\ file' = Configuration(FALSE, [f \in {} |-> <<>>], <<>>) /\ shipped' = FALSE /\ given' = <<>>
  /\ UNCHANGED <<process, m_platformList, m_local>>

\* Nothing is inserted into a file that does not load.
Inserts == process = "up" /\ file # NoFile

\* intBuf has room for nine digits. Longer ones overrun it, unharmed or not.
Overruns(node) == \E f \in DOMAIN node : node[f] = Long

Overrun(function, node) ==
  /\ Inserts /\ Overruns(node)
  /\ process' = function
  /\ UNCHANGED <<file, m_platformList, m_local, shipped, given>>

\* Mutant: one element is forgotten.
WithForgotten(node) == [f \in DOMAIN node \ {"aliveInterval"} |-> node[f]]

\* The elements of a node as they come to be in the file.
WithElements(node) == node

InsertVideoServerNode(node) ==
  /\ Inserts /\ Len(file.SubRealm) < MaxInserts
  /\ file' = [file EXCEPT !.SubRealm = Append(@, WithElements(node))]
  /\ given' = Append(given, node)
  /\ UNCHANGED <<process, m_platformList, m_local, shipped>>

\* The children of local with the same name, in their order. videoNum is not
\* among what is written.
Children(f) == IF f \in DOMAIN file.local THEN file.local[f] ELSE <<>>

InsertLocalServerNode(node) ==
  /\ Inserts /\ Len(Children("ID")) < MaxInserts
  /\ file' = [file EXCEPT !.local = [f \in Written \union DOMAIN @ |->
                 Children(f) \o (IF f \in Written THEN <<node[f]>> ELSE <<>>)]]
  /\ UNCHANGED <<process, m_platformList, m_local, shipped, given>>

\* createXML and the inserts end with SaveFile, which empties the file and then
\* writes it: a process that dies in between leaves one that does not load.
Interrupted ==
  /\ process = "up"
  /\ process' = "SaveFile"
  /\ file' = NoFile /\ shipped' = FALSE /\ given' = <<>>
  /\ UNCHANGED <<m_platformList, m_local>>

-----------------------------------------------------------------------------
(* Reading.                                                                *)

\* SubRealm, where the query begins, has no ID to be compared.
queryVideoServerNodeByName ==
  /\ process = "up" /\ file # NoFile
  /\ process' = "queryVideoServerNodeByName"
  /\ UNCHANGED <<file, m_platformList, m_local, shipped, given>>

\* The first child of each name counts.
readLocalServerNode ==
  /\ process = "up" /\ file # NoFile
  /\ IF \E f \in Local : Children(f) = <<>> \/ Head(Children(f)) = Blank
     THEN process' = "readLocalServerNode" /\ UNCHANGED m_local
     ELSE m_local' = [f \in Local |-> Head(Children(f))] /\ UNCHANGED process
  /\ UNCHANGED <<file, m_platformList, shipped, given>>

readHttpServerNode ==
  /\ process = "up" /\ file # NoFile
  /\ process' = IF file.http THEN process ELSE "readHttpServerNode"
  /\ UNCHANGED <<file, m_platformList, m_local, shipped, given>>

\* What is read of a platform. An empty attribute is no null pointer.
Readable(node) == \A f \in Platform : f \in DOMAIN node /\ (node[f] = Blank => f \in Attributes)

\* Mutant: the realm is taken from the wrong attribute.
SameAttribute(node) == [node EXCEPT !["realm"] = node["ID"]]

newNode(node) == node

readVideoServerNodes ==
  /\ process = "up" /\ file # NoFile
  /\ Len(m_platformList) + Len(file.SubRealm) <= MaxPlatforms
  /\ IF \A k \in DOMAIN file.SubRealm : Readable(file.SubRealm[k])
     THEN /\ m_platformList' = m_platformList \o [k \in DOMAIN file.SubRealm |-> newNode(file.SubRealm[k])]
          /\ UNCHANGED process
     ELSE process' = "readVideoServerNodes" /\ UNCHANGED m_platformList
  /\ UNCHANGED <<file, m_local, shipped, given>>

\* The program is started again, with the file as the last process left it.
Restart ==
  /\ process' = "up" /\ m_platformList' = <<>> /\ m_local' = <<>>
  /\ UNCHANGED <<file, shipped, given>>

-----------------------------------------------------------------------------
Next ==
  \/ createXML
  \/ \E node \in Filled(Platform) :
       InsertVideoServerNode(node) \/ Overrun("insertVideoServerNode", node)
  \/ \E node \in Filled(Written) :
       InsertLocalServerNode(node) \/ Overrun("insertLocalServerNode", node)
  \/ Interrupted
  \/ queryVideoServerNodeByName
  \/ readLocalServerNode \/ readHttpServerNode \/ readVideoServerNodes
  \/ Restart

Spec == Init /\ [][Next]_vars

-----------------------------------------------------------------------------
(* Properties.                                                             *)

\* The reads a process begins with bring it down when createXML has replaced the
\* file, which then has no http and never a videoNum, or when a platform has been
\* inserted with an empty IP or password; never otherwise, and in particular not
\* because of what insertLocalServerNode has added, and not because of a save that
\* was interrupted, after which nothing is read.
FaultCause ==
  /\ process \in {"readLocalServerNode", "readHttpServerNode"} => ~ shipped
  /\ process = "readVideoServerNodes" =>
       \E k \in DOMAIN given : Blank \in {given[k]["IP"], given[k]["password"]}

\* A read appends the platforms the file has been given, in their order; and the
\* server's own settings are the shipped ones, with which each text is one and
\* the same here, whatever has been inserted.
ReadBack ==
  [][/\ m_platformList' \in {m_platformList, m_platformList \o given, <<>>}
     /\ m_local' # <<>> => shipped' \/ m_local' = m_local
     /\ m_local' # <<>> => \A f \in Local : m_local'[f] = m_local'["videoNum"]]_vars
=============================================================================
