------------------------------ MODULE Template ------------------------------
(***************************************************************************)
(* What a miner is asked to build: create_block_template                   *)
(* (src/scarletcoin/core/template.py) over Mempool.collect.  The tip is    *)
(* read first, without a lock; the transactions are collected afterwards   *)
(* under the pool's lock.                                                  *)
(***************************************************************************)
EXTENDS Mempool

CONSTANT MaxBlockBytes  \* params.max_block_size - COINBASE_RESERVE

ASSUME MaxBlockBytesAssumption == MaxBlockBytes \in Nat

VARIABLE template   \* the template last built, or being built

tvars == <<vars, template>>

\* entries(): highest fee rate first, then first come.
Entries(p) ==
    LET place(t) == Cardinality({u \in p.txs : ~EvictedBefore(p, u, t)})
    IN  [k \in 1..Cardinality(p.txs) |-> CHOOSE t \in p.txs : place(t) = k]

ParentsOf(p, t) == {u \in p.txs : Outputs[u] \cap Inputs[t] # {}}

Fits(sel, t) == sel.used + Size[t] <= MaxBlockBytes

\* Mutant: a child may come before its parent.
ConsideredAnyOrder(p, h, sel, t) ==
    IF t \notin sel.left \/ ~Fits(sel, t) THEN sel
    ELSE IF LockTime[t] > h THEN [sel EXCEPT !.left = @ \ {t}]
    ELSE [chosen |-> Append(sel.chosen, t), used |-> sel.used + Size[t],
          left |-> sel.left \ {t}]

\* The body of collect's inner loop, for one candidate.
Considered(p, h, sel, t) ==
    IF t \notin sel.left \/ ~Fits(sel, t) THEN sel
    ELSE IF LockTime[t] > h THEN [sel EXCEPT !.left = @ \ {t}]
    ELSE IF ~(ParentsOf(p, t) \subseteq ToSet(sel.chosen)) THEN sel
    ELSE [chosen |-> Append(sel.chosen, t), used |-> sel.used + Size[t],
          left |-> sel.left \ {t}]

Pass(p, h, sel) ==
    FoldLeft(LAMBDA s, t : Considered(p, h, s, t), sel, Entries(p))

\* Passes are repeated until one makes no progress; each but the last chooses
\* a transaction, so there are no more than transactions.
Collect(p, h) ==
    FoldLeft(LAMBDA sel, i : Pass(p, h, sel),
             [chosen |-> <<>>, used |-> 0, left |-> p.txs],
             [i \in 1..Cardinality(p.txs) |-> i])

NoTemplate == [prev |-> Genesis, height |-> 0, txs |-> <<>>, done |-> FALSE]

TInit == Init /\ template = NoTemplate

\* create_block_template reads the tip, ...
TemplateStart ==
    /\ template' = [prev |-> tip, height |-> HeightOf(tip) + 1, txs |-> <<>>,
                    done |-> FALSE]
    /\ UNCHANGED vars

\* ... and collects when it gets the pool's lock.
TemplateCollect ==
    /\ job = Free /\ template.height > 0 /\ ~template.done
    /\ template' = [template EXCEPT !.txs = Collect(pool, template.height).chosen,
                                    !.done = TRUE]
    /\ UNCHANGED vars

TNext ==
    \/ Next /\ UNCHANGED template
    \/ TemplateStart
    \/ TemplateCollect

TSpec == TInit /\ [][TNext]_tvars

----------------------------------------------------------------------------

\* The transactions s, in this order and with the witnesses the pool holds
\* (wrong ones for those in forged), can be connected on top of b.
Connectable(s, forged, b) ==
    \A i \in 1..Len(s) :
        LET earlier == {s[j] : j \in 1..(i - 1)}
        IN  /\ LockTime[s[i]] <= HeightOf(b) + 1
            /\ s[i] \notin earlier \cup Confirmed[b] \cup forged
            /\ \A c \in Inputs[s[i]] :
                /\ \A u \in earlier : c \notin Inputs[u]
                /\ \/ \E u \in earlier : c \in Outputs[u]
                   \/ c \in Utxo[b] /\ MatureAt[c] <= HeightOf(b) + 1

\* A template collected once the pool has digested the tip that it names can
\* be mined on it, in the order it gives, exactly if no transaction with wrong
\* witnesses has been chosen, and fits in a block (create_block_template: "Build
\* a template for the block that would extend the current tip").  collect()
\* looks at no witness: what add() has let into the pool under a txid that had
\* passed before spoils the block, which is the exception the words "exactly
\* if" name.
TemplateConnects ==
    [][template'.done /\ ~template.done /\ Settled /\ template.prev = active =>
        LET chosen == template'.txs
        IN  /\ Connectable(chosen, pool.forged, active)
                 <=> ToSet(chosen) \cap pool.forged = {}
            /\ TotalSize(ToSet(chosen)) <= MaxBlockBytes]_tvars

=============================================================================
