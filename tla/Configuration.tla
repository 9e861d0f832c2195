---------------------------- MODULE Configuration ----------------------------
(***************************************************************************)
(* All four passes of Configuration::parsing: beside the two of            *)
(* ConfigSyntax, checkSameKey looks for unknown and repeated keys and      *)
(* setValue fills the Server and Location objects and hands them to        *)
(* Operation.                                                              *)
(*                                                                         *)
(* Of the values it is kept which key has one; the port, the names and the *)
(* paths are kept themselves, since they are compared with one another.    *)
(***************************************************************************)
EXTENDS ConfigSyntax, SequencesExt

CONSTANTS
  ServerKey, LocationKey,  \* serverDirective, locationDirective
  Port,                    \* the words util::stoui takes for a number but 0
  MaxServer                \* how many servers are handed to Operation

ASSUME KeyAssumption ==
  /\ {"listen", "server_name"} \subseteq ServerKey
  /\ "listen" \notin LocationKey
  /\ ServerKey \cup LocationKey \cup Port \subseteq Word
ASSUME MaxServerAssumption == MaxServer \in Nat

VARIABLES
  same,      \* checkSameKey: the block it is in, the keys seen in each table
  filling,   \* setValue: the block it is in, the key whose values it reads
  server,    \* setValue's Server object
  location,  \* setValue's Location object
  servers    \* Operation::_servers, in the order of setServer

valueVars == <<same, filling, server, location, servers>>
configVars == <<syntaxVars, valueVars>>

\* _listen is not initialised: it may happen to be any server's port, or none's.
NoPort == "garbage"
NewServer(port) == [listen |-> port, names |-> {}, keys |-> {}, locations |-> {}]
NewLocation == [path |-> "none", keys |-> {}]

\* The tables of checkSameKey are not initialised before the first block.
ConfigInit ==
  /\ Init
  /\ \E seen \in SUBSET ServerKey :
       same = [block |-> "SERVER", SERVER |-> seen, LOCATION |-> {}]
  /\ filling = [block |-> "SERVER", key |-> "none"]
  /\ \E port \in Port \cup {NoPort} : server = NewServer(port)
  /\ location = NewLocation
  /\ servers = <<>>

-----------------------------------------------------------------------------
(***************************************************************************)
(* checkSameKey.  The end of a location does not lead back to the keys of  *)
(* its server.                                                             *)
(***************************************************************************)

Keys(block) == IF block = "SERVER" THEN ServerKey ELSE LocationKey

SameKeyThrows(t, kind) ==
  kind = "KEY" /\ (t \notin Keys(same.block) \/ t \in same[same.block])

\* (variant: serverTable is not cleared)
checkSameKeyNoReset(t, kind) ==
  same' = CASE kind = "SERVER" -> [same EXCEPT !.block = kind]
            [] kind = "LOCATION" -> [same EXCEPT !.block = kind, ![kind] = {}]
            [] kind = "KEY" -> [same EXCEPT ![same.block] = @ \cup {t}]
            [] OTHER -> same

checkSameKey(t, kind) ==
  same' = CASE kind \in Block -> [same EXCEPT !.block = kind, ![kind] = {}]
            [] kind = "KEY" -> [same EXCEPT ![same.block] = @ \cup {t}]
            [] OTHER -> same

-----------------------------------------------------------------------------
(***************************************************************************)
(* setValue.                                                               *)
(***************************************************************************)

\* compareServer: a server of the same port has one of the names.
Duplicate ==
  \E s \in ToSet(servers) : s.listen = server.listen /\ s.names \cap server.names # {}

\* Server::setLocation: a location of the server has this path.
KnownPath == \E l \in server.locations : l.path = location.path

\* A port is asked for in a server only: in a location "listen" is no key.
SetValueThrows(t, kind) ==
  \/ /\ filling.key = "listen" /\ filling.block = "SERVER"
     /\ kind # "SEMICOLON" /\ t \notin Port
  \/ /\ filling.key = "none" /\ kind = "CLOSE_BRACKET"
     /\ IF filling.block = "SERVER" THEN Duplicate ELSE KnownPath

\* Server::setValue of the key being read; a key that is not one of the object
\* changes nothing here and in setLocationValue.
setServerValue(t) ==
  server' = CASE filling.key = "listen" -> [server EXCEPT !.listen = t]
              [] filling.key = "server_name" -> [server EXCEPT !.names = @ \cup {t}]
              [] OTHER -> [server EXCEPT !.keys = @ \cup ({filling.key} \cap ServerKey)]

setLocationValue ==
  location' = [location EXCEPT !.keys = @ \cup ({filling.key} \cap LocationKey)]

\* A value is given to the object of the block.
setObject(t) ==
  IF filling.block = "SERVER"
  THEN setServerValue(t) /\ UNCHANGED location
  ELSE setLocationValue /\ UNCHANGED server

\* Inside the values of a key, whatever their kinds, up to a ";".
readValues(t, kind) ==
  /\ IF kind = "SEMICOLON"
     THEN filling' = [filling EXCEPT !.key = "none"] /\ UNCHANGED <<server, location>>
     ELSE setObject(t) /\ UNCHANGED filling
  /\ UNCHANGED servers

closeBlock ==
  IF filling.block = "SERVER"
  THEN /\ Len(servers) < MaxServer
       /\ servers' = Append(servers, server)
       /\ UNCHANGED <<filling, server, location>>
  ELSE /\ server' = [server EXCEPT !.locations = @ \cup {location}]
       /\ filling' = [filling EXCEPT !.block = "SERVER"]
       /\ UNCHANGED <<location, servers>>

openBlock(kind) ==
  /\ filling' = [filling EXCEPT !.block = kind]
  /\ IF kind = "SERVER"
     THEN \E port \in Port \cup {NoPort} : server' = NewServer(port)
     ELSE UNCHANGED server
  /\ location' = IF kind = "LOCATION" THEN NewLocation ELSE location
  /\ UNCHANGED servers

setValue(t, kind) ==
  \/ filling.key # "none" /\ readValues(t, kind)
  \/ /\ filling.key = "none"
     /\ \/ kind = "CLOSE_BRACKET" /\ closeBlock
        \/ kind \in Block /\ openBlock(kind)
        \/ /\ kind = "KEY"
           /\ filling' = [filling EXCEPT !.key = t]
           /\ UNCHANGED <<server, location, servers>>
        \/ /\ kind = "PATH"
           /\ location' = [location EXCEPT !.path = t]
           /\ UNCHANGED <<filling, server, servers>>
        \/ /\ kind \notin Block \cup {"CLOSE_BRACKET", "KEY", "PATH"}
           /\ UNCHANGED <<filling, server, location, servers>>

-----------------------------------------------------------------------------
LaterThrows(t, kind) == SameKeyThrows(t, kind) \/ SetValueThrows(t, kind)

Parse(t) ==
  \/ (Refuse(t) \/ Stray(t)) /\ UNCHANGED valueVars
  \/ /\ ~LaterThrows(t, kindOf(t))
     /\ Accept(t)
     /\ checkSameKey(t, kindOf(t))
     /\ setValue(t, kindOf(t))
  \/ /\ LaterThrows(t, kindOf(t))
     /\ LaterPass /\ verdict' = "refused"
     /\ UNCHANGED valueVars

\* At the end of the file setValue may still look for a ";".
Finish ==
  /\ \/ (blockCount = 0 => filling.key = "none") /\ EndOfFile
     \/ blockCount = 0 /\ filling.key # "none" /\ LaterPass /\ verdict' = "undefined"
  /\ UNCHANGED valueVars

ConfigNext == Finish \/ \E t \in Token : Parse(t)

ConfigSpec == ConfigInit /\ [][ConfigNext]_configVars

=============================================================================
