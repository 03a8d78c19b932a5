----------------------------- MODULE PageStore ----------------------------
(***************************************************************************)
(* What the layers above expect of the buffer pool and the data file:      *)
(* numbered pages that read back what was written last, whatever is cached *)
(* or evicted in between, and that hold, after the process or the machine  *)
(* stopped, each on its own, a value they had since the last sync.         *)
(***************************************************************************)
CONSTANTS PageIds, Data, Zero,
          Missing   \* a page that was never allocated

VARIABLES content,   \* what a reader of the page gets
          since      \* the values the page had since the last sync, and at it

vars == <<content, since>>

Init == /\ content = [p \in PageIds |-> Missing]
        /\ since = [p \in PageIds |-> {Missing}]

Seen == LET now == content'
        IN  since' = [p \in PageIds |-> since[p] \cup {now[p]}]

\* The file grows by one page, or by more over a gap.
Grow == /\ LET old == content
               new == content'
           IN  new = [p \in PageIds |-> IF old[p] = Missing /\ new[p] # Missing
                                          THEN Zero ELSE old[p]]
        /\ Seen

Write(p, d) == /\ content[p] # Missing
               /\ content' = [content EXCEPT ![p] = d]
               /\ Seen

Sync == /\ since' = [p \in PageIds |-> {content[p]}]
        /\ UNCHANGED content

\* What was not synced may still be lost later, unless the machine stopped.
Stop == LET now == content'
        IN  /\ \A p \in PageIds : now[p] \in since[p]
            /\ now \in [PageIds -> Data \cup {Missing}]
            /\ since' \in {since, [p \in PageIds |-> {now[p]}]}

Next == \/ Stop \/ Grow \/ Sync
        \/ \E p \in PageIds, d \in Data : Write(p, d)

Spec == Init /\ [][Next]_vars
===========================================================================
