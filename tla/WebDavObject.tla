---------------------------- MODULE WebDavObject ----------------------------
(***************************************************************************)
(* One mutable JSON file on the WebDAV server that several devices write,  *)
(* and the client's copies of it (sync/webdav.rs): conditional GETs and    *)
(* conditional PUTs with a bounded number of attempts.                     *)
(*                                                                         *)
(* An ETag stands for the content it names.  The server is a provider that *)
(* keeps conditions (cstcloud_compatibility is off) and has the parent     *)
(* directory, so a PUT is accepted or refused with 412.                    *)
(***************************************************************************)
EXTENDS Integers

CONSTANTS Device,
          Value,      \* what a file can hold
          Attempts,   \* attempts of put_mutable_json, three
          None        \* no file, no copy, no PUT

Put == [value : Value, existing : Value \cup {None}, known : BOOLEAN, tries : 0..Attempts]

ASSUME WebDavAssumption ==
    /\ Attempts \in Nat \ {0}
    /\ None \notin Value \cup Put

VARIABLES object,  \* the file on the server
          cached,  \* the copy a device has with its ETag ("object:" in its store)
          put      \* the PUT a device is engaged in

webdav == <<object, cached, put>>

WebDavTypeOK ==
    /\ object \in Value \cup {None}
    /\ cached \in [Device -> Value \cup {None}]
    /\ put \in [Device -> Put \cup {None}]

WebDavInit ==
    /\ object = None
    /\ cached = [d \in Device |-> None]
    /\ put = [d \in Device |-> None]
------------------------------------------------------------------------------
(* get_optional.                                                           *)

\* What a GET may answer: a copy whose ETag a listing named a moment ago is
\* taken for current, and the server is asked otherwise.
Answers(d, listed) ==
    {object} \cup (IF cached[d] # None /\ cached[d] = listed THEN {listed} ELSE {})

\* remember_object, and invalidate_object if there is no file.
Remember(d, value) == cached' = [cached EXCEPT ![d] = value]
------------------------------------------------------------------------------
(* put_mutable_json.                                                       *)

\* The cached copy is what is expected on the server; without one it is asked.
Open(d, value) ==
    put' = [put EXCEPT ![d] = [value |-> value, existing |-> cached[d],
                               known |-> cached[d] # None, tries |-> 0]]

Ask(d) ==
    /\ put[d] # None /\ ~put[d].known
    /\ put' = [put EXCEPT ![d].existing = object, ![d].known = TRUE]
    /\ Remember(d, object)
    /\ UNCHANGED object

Try(d) == put[d] # None /\ put[d].known /\ put[d].tries < Attempts

\* Equal bytes are not sent.
Equal(d) ==
    /\ Try(d) /\ put[d].existing = put[d].value
    /\ UNCHANGED <<object, cached>>

\* If-Match holds, or If-None-Match: * if nothing is expected.
Accepted(d) ==
    /\ Try(d) /\ put[d].existing # put[d].value
    /\ object = put[d].existing
    /\ object' = put[d].value
    /\ Remember(d, put[d].value)

\* 412: the copy is dropped and the file is fetched again.
Refused(d) ==
    /\ Try(d) /\ put[d].existing # put[d].value
    /\ object # put[d].existing
    /\ put' = [put EXCEPT ![d].known = FALSE, ![d].tries = @ + 1]
    /\ Remember(d, None)
    /\ UNCHANGED object

\* WouldBlock: the file changed under every attempt.
GivenUp(d) == put[d] # None /\ put[d].known /\ put[d].tries = Attempts

\* The server loses the file.
Lose ==
    /\ object # None
    /\ object' = None
    /\ UNCHANGED <<cached, put>>
==============================================================================
