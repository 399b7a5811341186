------------------------------- MODULE Ledger -------------------------------
(***************************************************************************)
(* The append-only double-entry journal: books with their hash chain,      *)
(* posted transactions and account balances (internal/ledger and the       *)
(* finalizer of migration 018).  Posting is part of the caller's           *)
(* SERIALIZABLE transaction, so it is a function from one state of the     *)
(* tables to the next; a caller may post several transactions in a row.    *)
(***************************************************************************)
EXTENDS Integers, FiniteSets, Sequences, FiniteSetsExt

CONSTANTS
  Books,
  Accounts,
  BookOf,     \* BookOf[a]: the book of account a
  AssetOf,    \* AssetOf[a]: its asset
  NormalOf,   \* NormalOf[a]: its normal side
  LimitOf     \* LimitOf[a]: its credit limit, or NoLimit

NoLimit == -1

ASSUME LedgerAssumption ==
  /\ BookOf \in [Accounts -> Books]
  /\ DOMAIN AssetOf = Accounts
  /\ NormalOf \in [Accounts -> {"DEBIT", "CREDIT"}]
  /\ LimitOf \in [Accounts -> Nat \cup {NoLimit}]

Line(a, side, n) == [account |-> a, asset |-> AssetOf[a], side |-> side, amount |-> n]

-----------------------------------------------------------------------------
\* A hash commits to exactly what it was computed from, so it is modelled by that.
GenesisHash(b) == <<b>>

HashEntry(previous, sequence, q) ==
  Append(previous, <<sequence, q.tx, q.effect, q.hash, q.lines>>)

EmptyLedger ==
  [books |-> [b \in Books |-> [next |-> 1, head |-> GenesisHash(b)]],
   journal |-> {},
   balances |-> [a \in Accounts |-> [debit |-> 0, credit |-> 0, current |-> 0, last |-> 0]]]

\* The amount that the lines with numbers in I put on one side.
Total(q, side, I) ==
  MapThenSumSet(LAMBDA i : q.lines[i].amount, {i \in I : q.lines[i].side = side})

\* PostRequest.Validate: two lines or more, positive amounts, balanced by asset.
Balanced(q) ==
  \A i \in DOMAIN q.lines :
    LET same == {j \in DOMAIN q.lines : q.lines[j].asset = q.lines[i].asset}
    IN  Total(q, "DEBIT", same) = Total(q, "CREDIT", same)

Validate(q) ==
  /\ Len(q.lines) >= 2
  /\ \A i \in DOMAIN q.lines : q.lines[i].amount > 0
  /\ Balanced(q)

LinesOf(q, a) == {i \in DOMAIN q.lines : q.lines[i].account = a}

Touched(q) == {q.lines[i].account : i \in DOMAIN q.lines}

\* What debits and credits do to the value of an account.
Value(a, debit, credit) == IF NormalOf[a] = "DEBIT" THEN debit - credit ELSE credit - debit

\* The balances upsert: the sums of the transaction's lines, by account.
Moved(row, a, q, sequence) ==
  LET d == Total(q, "DEBIT", LinesOf(q, a))
      c == Total(q, "CREDIT", LinesOf(q, a))
  IN  [debit |-> row.debit + d, credit |-> row.credit + c,
       current |-> row.current + Value(a, d, c),
       last |-> IF sequence > row.last THEN sequence ELSE row.last]

\* Fault: the head of the chain stays behind.
NextOnly(book, entry) == [next |-> book.next + 1, head |-> book.head]

\* The compare-and-swap on the book.
Advanced(book, entry) == [next |-> book.next + 1, head |-> entry]

\* postInTx and finalize_ledger_transaction on the tables L.
PostTo(L, q) ==
  LET book  == L.books[q.book]
      entry == HashEntry(book.head, book.next, q)
  IN  [books |-> [L.books EXCEPT ![q.book] = Advanced(book, entry)],
       journal |-> L.journal \cup {[tx |-> q.tx, effect |-> q.effect, book |-> q.book,
                                    hash |-> q.hash, lines |-> q.lines,
                                    seq |-> book.next, prev |-> book.head, entry |-> entry]},
       balances |-> [a \in Accounts |->
                       IF a \in Touched(q) THEN Moved(L.balances[a], a, q, book.next)
                       ELSE L.balances[a]]]

WithinLimit(a, row) == LimitOf[a] = NoLimit \/ row.current >= -LimitOf[a]

\* receiptByEffect and the key of the table: an effect that is posted already is
\* answered with its receipt, or refused as a conflict, and nothing is written.
EffectIsNew(L, q) == \A r \in L.journal : r.effect # q.effect

\* The transaction commits only if its lines belong to the book and the assets of
\* their accounts and no account it touches ends beyond its limit.
CanPost(L, q) ==
  /\ EffectIsNew(L, q)
  /\ Validate(q)
  /\ \A r \in L.journal : r.tx # q.tx
  /\ \A i \in DOMAIN q.lines : /\ q.lines[i].account \in Accounts
                               /\ q.lines[i].asset = AssetOf[q.lines[i].account]
                               /\ BookOf[q.lines[i].account] = q.book
  /\ \A a \in Touched(q) : WithinLimit(a, PostTo(L, q).balances[a])

-----------------------------------------------------------------------------
Rows(L, b) == {r \in L.journal : r.book = b}

\* Every book is a chain: its posted rows carry the sequence numbers 1, 2, ...
\* without gap or repetition, each row names the hash of its predecessor, and the
\* book's head is the hash of the last.
IsChain(L, b) ==
  LET rows == Rows(L, b)
      Hash(n) == IF n = 0 THEN GenesisHash(b) ELSE (CHOOSE r \in rows : r.seq = n).entry
  IN  /\ {r.seq : r \in rows} = 1 .. (L.books[b].next - 1)
      /\ Cardinality(rows) = L.books[b].next - 1
      /\ \A r \in rows : r.prev = Hash(r.seq - 1) /\ r.entry = HashEntry(r.prev, r.seq, r)
      /\ L.books[b].head = Hash(L.books[b].next - 1)

\* FoldBalance: the value of an account recomputed from the posted lines.
FoldSide(L, a, side) == MapThenSumSet(LAMBDA r : Total(r, side, LinesOf(r, a)), L.journal)

FoldBalance(L, a) == Value(a, FoldSide(L, a, "DEBIT"), FoldSide(L, a, "CREDIT"))

\* The balance row of an account is the fold of its posted lines, and its
\* watermark is the last transaction that touched it.
IsFold(L, a) ==
  /\ L.balances[a].current = FoldBalance(L, a)
  /\ L.balances[a].debit = FoldSide(L, a, "DEBIT")
  /\ L.balances[a].credit = FoldSide(L, a, "CREDIT")
  /\ L.balances[a].last = Max({0} \cup {r.seq : r \in {s \in L.journal : a \in Touched(s)}})
=============================================================================
