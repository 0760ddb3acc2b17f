--------------------------- MODULE XmlConfigProofs ---------------------------
(* Theorems about XmlConfig, for every set of texts, whichever fields are   *)
(* empty at times and however many platforms and texts are inserted.       *)
EXTENDS XmlConfig, SequenceTheorems, TLAPS

Texts == Values \union {Blank, Long}

\* A platform as it may be given: only some of its elements may be empty.
Node == {n \in [Platform -> Texts] : \A f \in Platform : n[f] = Blank => f \in BlankFields}

Processes == {"up", "insertVideoServerNode", "insertLocalServerNode",
              "queryVideoServerNodeByName", "readLocalServerNode", "readHttpServerNode",
              "readVideoServerNodes", "SaveFile"}

-----------------------------------------------------------------------------
(* The inductive invariant.                                                *)

ConfigTypes ==
  /\ process \in Processes
  /\ shipped \in BOOLEAN
  /\ given \in Seq(Node)

\* A file that loads has the three parts, and its platforms are the ones given.
FileShape ==
  file # NoFile =>
    /\ file = Configuration(file.http, file.local, file.SubRealm)
    /\ file.http \in BOOLEAN
    /\ DOMAIN file.local \subseteq Local
    /\ \A f \in DOMAIN file.local : file.local[f] \in Seq(Texts)
    /\ file.SubRealm = given

\* Each name has a text v in front, whatever has been inserted behind it.
Leads(local, v) ==
  /\ DOMAIN local = Local
  /\ \A f \in Local : local[f] # <<>> /\ Head(local[f]) = v

\* The shipped file has an http, and its own settings are in front; a file that
\* createXML has written has no videoNum.
ShippedPlan ==
  file # NoFile =>
    IF shipped THEN file.http /\ \E v \in Values : Leads(file.local, v)
               ELSE "videoNum" \notin DOMAIN file.local

\* What has been read about the server itself is one and the same text.
LocalPlan == m_local # <<>> => \A f \in Local : m_local[f] = m_local["videoNum"]

CInv ==
  /\ ConfigTypes
  /\ FileShape
  /\ ShippedPlan
  /\ LocalPlan
  /\ FaultCause

-----------------------------------------------------------------------------
(* The texts of a node.                                                    *)

LEMMA PlatformFields ==
  /\ Written \subseteq Local /\ "videoNum" \in Local /\ "videoNum" \notin Written
  /\ "port" \in Platform /\ {"IP", "password"} \subseteq Platform
  /\ Attributes \subseteq Platform
BY DEF Local, Written, Platform, Attributes, Numbers

LEMMA FilledTexts ==
  ASSUME NEW fields, NEW node \in Filled(fields)
  PROVE  /\ node \in [fields -> Texts]
         /\ \A f \in fields : node[f] = Blank => f \in BlankFields
<1>1. PICK v \in Values :
        \/ node = Plain(fields, v)
        \/ node = [Plain(fields, v) EXCEPT !["port"] = Long]
        \/ \E f \in BlankFields : node = [Plain(fields, v) EXCEPT ![f] = Blank]
  BY DEF Filled
<1>2. v # Blank /\ v \in Texts /\ Long \in Texts /\ Blank \in Texts
  BY XmlConfigAssumption DEF Texts
<1>3. CASE node = Plain(fields, v)
  BY <1>2, <1>3 DEF Plain
<1>4. CASE node = [Plain(fields, v) EXCEPT !["port"] = Long]
  <2>1. node \in [fields -> Texts]
    BY <1>2, <1>4 DEF Plain
  <2>2. Long # Blank
    BY XmlConfigAssumption
  <2> QED
    BY <1>2, <1>4, <2>1, <2>2 DEF Plain
<1>5. ASSUME NEW g \in BlankFields, node = [Plain(fields, v) EXCEPT ![g] = Blank]
      PROVE  /\ node \in [fields -> Texts]
             /\ \A f \in fields : node[f] = Blank => f \in BlankFields
  BY <1>2, <1>5 DEF Plain
<1> QED
  BY <1>1, <1>3, <1>4, <1>5

\* What is inserted behind a text leaves it in front.
LEMMA HeadStays ==
  ASSUME NEW s \in Seq(Texts), NEW t \in Seq(Texts)
  PROVE  /\ s \o t \in Seq(Texts)
         /\ s # <<>> => s \o t # <<>> /\ Head(s \o t) = Head(s)
<1>1. s \o t \in Seq(Texts) /\ Len(s \o t) = Len(s) + Len(t)
  BY ConcatProperties
<1>2. ASSUME s # <<>> PROVE s \o t # <<>> /\ Head(s \o t) = Head(s)
  <2>1. Len(s) \in Nat /\ Len(t) \in Nat /\ Len(s) # 0
    BY <1>2
  <2>2. (s \o t)[1] = s[1]
    BY <2>1, ConcatProperties
  <2>3. Len(s \o t) # 0
    BY <1>1, <2>1
  <2> QED
    BY <1>1, <2>2, <2>3
<1> QED
  BY <1>1, <1>2

-----------------------------------------------------------------------------
(* The first state.                                                        *)

LEMMA InitInv == Init => CInv
<1> SUFFICES ASSUME Init PROVE CInv
  OBVIOUS
<1> USE PlatformFields
<1>1. PICK v \in Values :
        \/ /\ file = Configuration(TRUE, Once(Local, v), <<Plain(Platform, v)>>)
           /\ shipped = TRUE /\ given = <<Plain(Platform, v)>>
        \/ file = NoFile /\ shipped = FALSE /\ given = <<>>
  BY DEF Init
<1>2. v \in Texts /\ v # Blank
  BY XmlConfigAssumption DEF Texts
<1>3. ConfigTypes
  <2>1. Plain(Platform, v) \in Node
    BY <1>2 DEF Plain, Node
  <2>2. <<Plain(Platform, v)>> \in Seq(Node) /\ <<>> \in Seq(Node)
    BY <2>1
  <2>3. given \in Seq(Node)
    BY <1>1, <2>2
  <2> QED
    BY <1>1, <2>3 DEF ConfigTypes, Init, Processes
<1>4. FileShape /\ ShippedPlan
  <2>1. CASE file = NoFile
    BY <2>1 DEF FileShape, ShippedPlan
  <2>2. CASE file # NoFile
    <3>1. /\ file = Configuration(TRUE, Once(Local, v), given)
          /\ shipped
      BY <1>1, <2>2
    <3>2. file.http = TRUE /\ file.local = Once(Local, v) /\ file.SubRealm = given
      BY <3>1 DEF Configuration
    <3>3. /\ DOMAIN Once(Local, v) = Local
          /\ \A f \in Local : Once(Local, v)[f] = <<v>>
      BY DEF Once
    <3>4. <<v>> \in Seq(Texts) /\ <<v>> # <<>> /\ Head(<<v>>) = v
      BY <1>2
    <3>5. FileShape
      BY <3>1, <3>2, <3>3, <3>4 DEF FileShape
    <3>6. Leads(file.local, v)
      BY <3>2, <3>3, <3>4 DEF Leads
    <3> QED
      BY <3>1, <3>2, <3>5, <3>6 DEF ShippedPlan
  <2> QED
    BY <2>1, <2>2
<1>5. LocalPlan /\ FaultCause
  BY DEF Init, LocalPlan, FaultCause
<1> QED
  BY <1>3, <1>4, <1>5 DEF CInv

-----------------------------------------------------------------------------
(* Writing.                                                                *)

LEMMA CreateInv ==
  ASSUME CInv, createXML
  PROVE  CInv'
<1>1. /\ file' = Configuration(FALSE, [f \in {} |-> <<>>], <<>>)
      /\ shipped' = FALSE /\ given' = <<>> /\ process' = "up" /\ process = "up"
      /\ m_local' = m_local
  BY DEF createXML
<1>2. /\ file.http' = FALSE /\ file.local' = [f \in {} |-> <<>>] /\ file.SubRealm' = <<>>
  BY <1>1 DEF Configuration
<1>3. ConfigTypes'
  <2>1. <<>> \in Seq(Node)
    OBVIOUS
  <2> QED
    BY <1>1, <2>1 DEF ConfigTypes, Processes
<1>4. FileShape'
  BY <1>1, <1>2 DEF FileShape
<1>5. ShippedPlan'
  BY <1>1, <1>2 DEF ShippedPlan
<1>6. LocalPlan' /\ FaultCause'
  BY <1>1 DEF LocalPlan, FaultCause, CInv
<1> QED
  BY <1>3, <1>4, <1>5, <1>6 DEF CInv

LEMMA InsertVideoInv ==
  ASSUME CInv, NEW node \in Filled(Platform), InsertVideoServerNode(node)
  PROVE  CInv'
<1>1. /\ file # NoFile /\ process = "up" /\ process' = "up"
      /\ file' = [file EXCEPT !.SubRealm = Append(file.SubRealm, node)]
      /\ given' = Append(given, node) /\ shipped' = shipped /\ m_local' = m_local
  BY DEF InsertVideoServerNode, Inserts, WithElements
<1>2. /\ file = Configuration(file.http, file.local, file.SubRealm)
      /\ file.SubRealm = given /\ given \in Seq(Node)
  BY <1>1 DEF CInv, FileShape, ConfigTypes
<1>3. file' = Configuration(file.http, file.local, given')
  BY <1>1, <1>2 DEF Configuration
<1>4. file.http' = file.http /\ file.local' = file.local /\ file.SubRealm' = given'
  BY <1>3 DEF Configuration
<1>5. ConfigTypes'
  <2>1. node \in Node
    BY FilledTexts DEF Node
  <2>2. given' \in Seq(Node)
    BY <1>1, <1>2, <2>1, AppendProperties
  <2> QED
    BY <1>1, <2>2 DEF CInv, ConfigTypes
<1>6. FileShape'
  BY <1>1, <1>3, <1>4 DEF FileShape, CInv
<1>7. ShippedPlan'
  BY <1>1, <1>4 DEF ShippedPlan, CInv
<1>8. LocalPlan' /\ FaultCause'
  BY <1>1 DEF LocalPlan, FaultCause, CInv
<1> QED
  BY <1>5, <1>6, <1>7, <1>8 DEF CInv

LEMMA InsertLocalInv ==
  ASSUME CInv, NEW node \in Filled(Written), InsertLocalServerNode(node)
  PROVE  CInv'
<1> DEFINE added(f) == IF f \in Written THEN <<node[f]>> ELSE <<>>
           local == [f \in Written \union DOMAIN file.local |-> Children(f) \o added(f)]
<1> USE PlatformFields
<1>1. /\ file # NoFile /\ process = "up" /\ process' = "up"
      /\ file' = [file EXCEPT !.local = local]
      /\ given' = given /\ shipped' = shipped /\ m_local' = m_local
  BY DEF InsertLocalServerNode, Inserts
<1>2. /\ file = Configuration(file.http, file.local, file.SubRealm)
      /\ DOMAIN file.local \subseteq Local
      /\ \A f \in DOMAIN file.local : file.local[f] \in Seq(Texts)
      /\ file.SubRealm = given /\ file.http \in BOOLEAN
  BY <1>1 DEF CInv, FileShape
<1>3. ASSUME NEW f
      PROVE  added(f) \in Seq(Texts) /\ Children(f) \in Seq(Texts)
  <2>1. added(f) \in Seq(Texts)
    BY FilledTexts
  <2>2. Children(f) \in Seq(Texts)
    BY <1>2 DEF Children
  <2> QED
    BY <2>1, <2>2
<1>4. \A f \in DOMAIN local :
        /\ local[f] \in Seq(Texts)
        /\ Children(f) # <<>> => local[f] # <<>> /\ Head(local[f]) = Head(Children(f))
  BY <1>3, HeadStays
<1>5. DOMAIN local = Written \union DOMAIN file.local
  OBVIOUS
<1> HIDE DEF local
<1>6. file' = Configuration(file.http, local, given)
  BY <1>1, <1>2 DEF Configuration
<1>7. file.http' = file.http /\ file.local' = local /\ file.SubRealm' = given'
  BY <1>1, <1>6 DEF Configuration
<1>8. ConfigTypes'
  BY <1>1 DEF CInv, ConfigTypes
<1>9. FileShape'
  BY <1>1, <1>2, <1>4, <1>5, <1>6, <1>7 DEF FileShape
<1>10. ShippedPlan'
  <2>1. ASSUME NEW v, Leads(file.local, v)
        PROVE  Leads(local, v)
    <3>1. DOMAIN local = Local
      BY <1>5, <2>1 DEF Leads
    <3>2. \A f \in Local : Children(f) # <<>> /\ Head(Children(f)) = v
      BY <2>1 DEF Leads, Children
    <3> QED
      BY <1>4, <3>1, <3>2 DEF Leads
  <2> QED
    BY <1>1, <1>5, <1>7, <2>1 DEF ShippedPlan, CInv
<1>11. LocalPlan' /\ FaultCause'
  BY <1>1 DEF LocalPlan, FaultCause, CInv
<1> QED
  BY <1>8, <1>9, <1>10, <1>11 DEF CInv

-----------------------------------------------------------------------------
(* Reading.                                                                *)

\* With the shipped texts in front, what is read about the server itself is one
\* text, which is not empty.
LEMMA SettingsInFront ==
  ASSUME NEW v \in Values, Leads(file.local, v)
  PROVE  \A f \in Local : /\ Children(f) # <<>> /\ Head(Children(f)) # Blank
                          /\ Head(Children(f)) = v
<1>1. v # Blank
  BY XmlConfigAssumption
<1> QED
  BY <1>1 DEF Leads, Children

\* What the file has been given is read back.
LEMMA ReadIsGiven ==
  ASSUME ConfigTypes, FileShape, file # NoFile
  PROVE  [k \in DOMAIN file.SubRealm |-> newNode(file.SubRealm[k])] = given
<1>1. file.SubRealm = given /\ given \in Seq(Node)
  BY DEF ConfigTypes, FileShape
<1>2. given = [k \in DOMAIN given |-> given[k]]
  BY <1>1
<1> QED
  BY <1>1, <1>2 DEF newNode

\* A step that leaves the file alone keeps what is known of it.
LEMMA FileStays ==
  ASSUME CInv, UNCHANGED <<file, shipped, given>>, process' \in Processes,
         LocalPlan', FaultCause'
  PROVE  CInv'
BY DEF CInv, ConfigTypes, FileShape, ShippedPlan

LEMMA OverrunInv ==
  ASSUME CInv, NEW function \in {"insertVideoServerNode", "insertLocalServerNode"}, NEW node,
         Overrun(function, node)
  PROVE  CInv'
<1>1. process' = function /\ UNCHANGED <<file, m_local, shipped, given>>
  BY DEF Overrun
<1>2. LocalPlan' /\ FaultCause'
  BY <1>1 DEF CInv, LocalPlan, FaultCause
<1> QED
  BY <1>1, <1>2, FileStays DEF Processes

LEMMA QueryInv ==
  ASSUME CInv, queryVideoServerNodeByName
  PROVE  CInv'
<1>1. /\ process' = "queryVideoServerNodeByName"
      /\ UNCHANGED <<file, m_local, shipped, given>>
  BY DEF queryVideoServerNodeByName
<1>2. LocalPlan' /\ FaultCause'
  BY <1>1 DEF CInv, LocalPlan, FaultCause
<1> QED
  BY <1>1, <1>2, FileStays DEF Processes

\* The read of the local settings goes on with the shipped ones, and comes down
\* without a videoNum.
LEMMA ReadLocalStep ==
  ASSUME CInv, readLocalServerNode
  PROVE  \/ shipped /\ process' = "up" /\ LocalPlan'
         \/ ~ shipped /\ process' = "readLocalServerNode" /\ m_local' = m_local
<1>1. file # NoFile /\ process = "up"
  BY DEF readLocalServerNode
<1>2. CASE shipped
  <2>1. PICK v \in Values : Leads(file.local, v)
    BY <1>1, <1>2 DEF CInv, ShippedPlan
  <2>2. m_local' = [f \in Local |-> Head(Children(f))] /\ process' = process
    BY <2>1, SettingsInFront DEF readLocalServerNode
  <2>3. LocalPlan'
    BY <2>1, <2>2, PlatformFields, SettingsInFront DEF LocalPlan
  <2> QED
    BY <1>1, <1>2, <2>2, <2>3
<1>3. CASE ~ shipped
  <2>1. "videoNum" \in Local /\ Children("videoNum") = <<>>
    BY <1>1, <1>3, PlatformFields DEF CInv, ShippedPlan, Children
  <2>2. process' = "readLocalServerNode" /\ m_local' = m_local
    BY <2>1 DEF readLocalServerNode
  <2> QED
    BY <1>3, <2>2
<1> QED
  BY <1>2, <1>3

LEMMA ReadLocalInv ==
  ASSUME CInv, readLocalServerNode
  PROVE  CInv'
<1>1. UNCHANGED <<file, shipped, given>>
  BY DEF readLocalServerNode
<1>2. LocalPlan' /\ FaultCause' /\ process' \in Processes
  BY <1>1, ReadLocalStep DEF CInv, LocalPlan, FaultCause, Processes
<1> QED
  BY <1>1, <1>2, FileStays

LEMMA ReadHttpInv ==
  ASSUME CInv, readHttpServerNode
  PROVE  CInv'
<1>1. /\ UNCHANGED <<file, m_local, shipped, given>> /\ process = "up" /\ file # NoFile
      /\ process' = IF file.http THEN process ELSE "readHttpServerNode"
  BY DEF readHttpServerNode
<1>2. shipped => file.http
  BY <1>1 DEF CInv, ShippedPlan
<1>3. LocalPlan' /\ FaultCause' /\ process' \in Processes
  BY <1>1, <1>2 DEF CInv, LocalPlan, FaultCause, Processes
<1> QED
  BY <1>1, <1>3, FileStays

\* A platform that was given can be read unless its IP or password is empty.
LEMMA Unreadable ==
  ASSUME NEW node \in Node, ~ Readable(node)
  PROVE  Blank \in {node["IP"], node["password"]}
<1>1. PICK f \in Platform : node[f] = Blank /\ f \notin Attributes
  BY DEF Readable, Node
<1>2. f \in BlankFields
  BY <1>1 DEF Node
<1>3. f \in {"IP", "password"}
  BY <1>1, <1>2, XmlConfigAssumption DEF Attributes
<1> QED
  BY <1>1, <1>3

LEMMA ReadVideoInv ==
  ASSUME CInv, readVideoServerNodes
  PROVE  CInv'
<1>1. /\ UNCHANGED <<file, m_local, shipped, given>> /\ process = "up" /\ file # NoFile
      /\ \/ process' = process
         \/ /\ process' = "readVideoServerNodes"
            /\ \E k \in DOMAIN file.SubRealm : ~ Readable(file.SubRealm[k])
  BY DEF readVideoServerNodes
<1>2. given \in Seq(Node) /\ file.SubRealm = given
  BY <1>1 DEF CInv, ConfigTypes, FileShape
<1>3. process' = "readVideoServerNodes" =>
        \E k \in DOMAIN given : Blank \in {given[k]["IP"], given[k]["password"]}
  <2> SUFFICES ASSUME process' = "readVideoServerNodes"
               PROVE  \E k \in DOMAIN given : Blank \in {given[k]["IP"], given[k]["password"]}
    OBVIOUS
  <2>1. PICK k \in DOMAIN given : ~ Readable(given[k])
    BY <1>1, <1>2
  <2>2. given[k] \in Node
    BY <1>2, <2>1
  <2> QED
    BY <2>1, <2>2, Unreadable
<1>4. LocalPlan' /\ FaultCause' /\ process' \in Processes
  BY <1>1, <1>3 DEF CInv, LocalPlan, FaultCause, Processes
<1> QED
  BY <1>1, <1>4, FileStays

LEMMA InterruptedInv ==
  ASSUME CInv, Interrupted
  PROVE  CInv'
<1>1. /\ file' = NoFile /\ shipped' = FALSE /\ given' = <<>> /\ m_local' = m_local
      /\ process' = "SaveFile"
  BY DEF Interrupted
<1>2. ConfigTypes'
  <2>1. <<>> \in Seq(Node)
    OBVIOUS
  <2> QED
    BY <1>1, <2>1 DEF ConfigTypes, Processes
<1>3. FileShape' /\ ShippedPlan'
  BY <1>1 DEF FileShape, ShippedPlan
<1>4. LocalPlan' /\ FaultCause'
  BY <1>1 DEF CInv, LocalPlan, FaultCause
<1> QED
  BY <1>2, <1>3, <1>4 DEF CInv

LEMMA RestartInv ==
  ASSUME CInv, Restart
  PROVE  CInv'
<1>1. UNCHANGED <<file, shipped, given>> /\ process' = "up" /\ m_local' = <<>>
  BY DEF Restart
<1>2. LocalPlan' /\ FaultCause'
  BY <1>1 DEF LocalPlan, FaultCause
<1> QED
  BY <1>1, <1>2, FileStays DEF Processes

-----------------------------------------------------------------------------
LEMMA CInvStep == CInv /\ [Next]_vars => CInv'
<1> SUFFICES ASSUME CInv, [Next]_vars PROVE CInv'
  OBVIOUS
<1>1. CASE UNCHANGED vars
  <2>1. UNCHANGED <<file, process, m_local, shipped, given>>
    BY <1>1 DEF vars
  <2>2. LocalPlan' /\ FaultCause' /\ process' \in Processes
    BY <2>1 DEF CInv, ConfigTypes, LocalPlan, FaultCause
  <2> QED
    BY <2>1, <2>2, FileStays
<1>2. CASE \E node \in Filled(Platform) :
             InsertVideoServerNode(node) \/ Overrun("insertVideoServerNode", node)
  BY <1>2, InsertVideoInv, OverrunInv
<1>3. CASE \E node \in Filled(Written) :
             InsertLocalServerNode(node) \/ Overrun("insertLocalServerNode", node)
  BY <1>3, InsertLocalInv, OverrunInv
<1> QED
  BY <1>1, <1>2, <1>3, CreateInv, QueryInv, ReadLocalInv, ReadHttpInv, ReadVideoInv,
     InterruptedInv, RestartInv DEF Next

LEMMA CInvCorrect == Spec => []CInv
  BY InitInv, CInvStep, PTL DEF Spec

\* What brings the first reads of a process down: a file that createXML has
\* replaced, or a platform given with an empty IP or password.
THEOREM FaultCauseCorrect == Spec => []FaultCause
<1>1. CInv => FaultCause
  BY DEF CInv
<1> QED
  BY <1>1, CInvCorrect, PTL

-----------------------------------------------------------------------------
(* What a step reads.                                                      *)

ReadStep ==
  /\ m_platformList' \in {m_platformList, m_platformList \o given, <<>>}
  /\ m_local' # <<>> => shipped' \/ m_local' = m_local
  /\ m_local' # <<>> => \A f \in Local : m_local'[f] = m_local'["videoNum"]

LEMMA ReadsBack == CInv /\ CInv' /\ [Next]_vars => [ReadStep]_vars
<1> SUFFICES ASSUME CInv, CInv', Next PROVE ReadStep
  BY DEF vars
<1>1. m_local' # <<>> => \A f \in Local : m_local'[f] = m_local'["videoNum"]
  BY DEF CInv, LocalPlan
<1>2. CASE readLocalServerNode
  <2>1. m_platformList' = m_platformList /\ shipped' = shipped
    BY <1>2 DEF readLocalServerNode
  <2>2. shipped \/ m_local' = m_local
    BY <1>2, ReadLocalStep
  <2> QED
    BY <1>1, <2>1, <2>2 DEF ReadStep
<1>3. CASE readVideoServerNodes
  <2>1. /\ m_local' = m_local
        /\ \/ m_platformList' = m_platformList
           \/ m_platformList' = m_platformList \o
                [k \in DOMAIN file.SubRealm |-> newNode(file.SubRealm[k])]
    BY <1>3 DEF readVideoServerNodes
  <2>2. [k \in DOMAIN file.SubRealm |-> newNode(file.SubRealm[k])] = given
    BY <1>3, ReadIsGiven DEF CInv, readVideoServerNodes
  <2>3. m_platformList' \in {m_platformList, m_platformList \o given}
    BY <2>1, <2>2
  <2> QED
    BY <1>1, <2>1, <2>3 DEF ReadStep
<1>4. CASE Restart
  BY <1>1, <1>4 DEF Restart, ReadStep
<1>5. CASE m_platformList' = m_platformList /\ m_local' = m_local
  BY <1>1, <1>5 DEF ReadStep
<1>6. \/ readLocalServerNode \/ readVideoServerNodes \/ Restart
      \/ m_platformList' = m_platformList /\ m_local' = m_local
  BY DEF Next, createXML, InsertVideoServerNode, InsertLocalServerNode, Overrun, Interrupted,
     queryVideoServerNodeByName, readHttpServerNode
<1> QED
  BY <1>2, <1>3, <1>4, <1>5, <1>6

\* A read appends exactly the platforms the file was given; the server's own
\* settings stay the shipped ones, whatever is inserted behind them.
THEOREM ReadBackCorrect == Spec => ReadBack
<1>1. Spec => [][ReadStep]_vars
  BY CInvCorrect, ReadsBack, PTL DEF Spec
<1> QED
  BY <1>1 DEF ReadBack, ReadStep
=============================================================================
