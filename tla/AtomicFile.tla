---------------------------- MODULE AtomicFile ----------------------------
(***************************************************************************)
(* What write_textfile (collectors/base.py) promises node_exporter: the    *)
(* textfile is a register of renders.  Renders are numbered in the order   *)
(* their bodies are built.  A scrape picks one render when it begins and   *)
(* delivers that very render, in full; a file that does not exist yet is   *)
(* never scraped.                                                          *)
(***************************************************************************)
EXTENDS Naturals

CONSTANT Readers     \* concurrent scrapes of the textfile directory

NoRender == 0        \* nothing published / nothing in progress

VARIABLES value,     \* the render the target path holds
          scraping,  \* the render each scrape in progress has picked
          scraped    \* the render each reader delivered last

vars == <<value, scraping, scraped>>

Init == /\ value = NoRender
        /\ scraping = [r \in Readers |-> NoRender]
        /\ scraped = [r \in Readers |-> NoRender]

\* A newer render replaces the published one.
Publish == /\ value' \in Nat
           /\ value' > value
           /\ UNCHANGED <<scraping, scraped>>

Begin(r) == /\ scraping[r] = NoRender
            /\ value # NoRender
            /\ scraping' = [scraping EXCEPT ![r] = value]
            /\ UNCHANGED <<value, scraped>>

Deliver(r) == /\ scraping[r] # NoRender
              /\ scraped' = [scraped EXCEPT ![r] = scraping[r]]
              /\ scraping' = [scraping EXCEPT ![r] = NoRender]
              /\ UNCHANGED value

Next == \/ Publish
        \/ \E r \in Readers : Begin(r) \/ Deliver(r)

Spec == Init /\ [][Next]_vars
=============================================================================
