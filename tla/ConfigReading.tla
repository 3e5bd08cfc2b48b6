--------------------------- MODULE ConfigReading ---------------------------
(***************************************************************************)
(* The loader reads a document: what it makes of one is what the document  *)
(* means, and it refuses what is wrong and nothing else.                   *)
(***************************************************************************)
EXTENDS ConfigDocuments

CONSTANTS
  Documents,   \* documents in the form of conf/wsgi.yaml
  NotMappings  \* streams in which no mapping ends: nothing, a scalar, a list

ASSUME DocumentsAssumption ==
  /\ \A d \in Documents : d \in WellFormed
  /\ \A s \in NotMappings :
       s \in Seq(Scalars \cup Marks) /\ \A i \in DOMAIN s : s[i] # "}"

VARIABLE doc  \* the document, as its author means it

vars == <<loaderVars, doc>>

DocInit ==
  /\ \/ /\ doc \in {[mapping |-> TRUE, entries |-> d] : d \in Documents}
        /\ rest = Stream(doc.entries)
     \/ /\ doc = [mapping |-> FALSE, entries |-> <<>>]
        /\ rest \in NotMappings
  /\ LoaderInit

DocNext == LoaderNext /\ UNCHANGED doc
DocSpec == DocInit /\ [][DocNext]_vars /\ WF_vars(DocNext)

-----------------------------------------------------------------------------

\* What strdup makes of an option: nobody looks at it.
Copies(v) == IF MemoryFails THEN {v, NULL} ELSE {v}

\* If the loader succeeds, it has read the document to its end, the document
\* was valid and each directive has arrived where it belongs: in particular the
\* option of each server at the runtime its own pointer leads to, unless that
\* memory was given away.
LoadsWhatItSays ==
  result = "loaded" =>
    /\ doc.mapping
    /\ rest = End
    /\ Valid(doc.entries)
    /\ use = IF Says(doc.entries, "use") THEN LoopFor(LastSaid(doc.entries, "use")) ELSE NULL
    /\ events = NumberSaid(doc.entries, "events")
    /\ connections = NumberSaid(doc.entries, "worker_connections")
    /\ Len(servers) = Len(Blocks(doc.entries))
    /\ \A i \in DOMAIN servers :
         LET b == Blocks(doc.entries)[i]
             r == servers[i].runtime
         IN /\ servers[i].listen = LastSaid(b, "listen")
            /\ servers[i].size = NumberSaid(b, "request_header_buffer_size")
            /\ HasRuntime(i) <=> Says(b, "runtime")
            /\ AllOrdered(doc.entries) /\ HasRuntime(i) /\ r[1] \notin garbled =>
                 arrays[r[1]][r[2]] \in Copies(LastSaid(b, "sample_option"))

\* A document is refused only if something in it is wrong, and memory is
\* damaged only by an option that comes before the first runtime.
RefusesWhatIsWrong ==
  doc.mapping =>
    /\ result = "failed" => ~Valid(doc.entries)
    /\ result # "crashed"
    /\ result = "undefined" => ~AllOrdered(doc.entries)

\* Loading ends for every document that is a mapping.  (For others the loop
\* waits for the end of a mapping that never comes.)
LoadingEnds == doc.mapping => <>(result \in Ends)
=============================================================================
