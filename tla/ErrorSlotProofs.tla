-------------------------- MODULE ErrorSlotProofs --------------------------
(***************************************************************************)
(* Theorems about the errors of threads (module ErrorSlot), for any number *)
(* of threads whose calls interleave.                                      *)
(*                                                                         *)
(* That no two pointers lead to the same text rests on a new text being a  *)
(* block that is not allocated, and on every pointer leading to one that   *)
(* is.  That a thread is shown an error of its own rests on the same: the  *)
(* block of a text that a slot holds is never given to another thread, so  *)
(* that it stays among the errors its thread has raised (OwnError).        *)
(* OnlyExitForgets needs to know besides what errorf has in hand at each   *)
(* of its steps (InHand): it overwrites no pointer to a text.              *)
(***************************************************************************)
EXTENDS ErrorSlot, TLAPS

\* What a thread has in hand, and where it may be in a call.
InHand ==
  \A t \in Thread :
    /\ pc[t] # "user" => initialized /\ t \in running
    /\ pointer[<<t, "message">>] # NULL => pc[t] \in {"message", "text", "shown"}
    /\ pointer[<<t, "text">>] # NULL => pc[t] = "text"
    /\ pc[t] = "text" => pointer[<<t, "text">>] \in recent[t]
    /\ slot(t) # NULL => initialized /\ t \in running

\* ShownIsOwn at every step of a call, but for the one between the making of a
\* text and its way into the slot.
OwnError ==
  \A t \in Thread :
    /\ recent[t] \subseteq raised[t]
    /\ slot(t) \in raised[t] \cup {NULL}
    /\ initialized /\ t \in running /\ pc[t] # "text" /\ recent[t] # {} =>
         slot(t) \in recent[t] \/ (slot(t) = NULL /\ error_out_of_memory \in recent[t])

IInv == TypeOK /\ TextsAreOwned /\ InHand /\ OwnError

LEMMA InitIInv == Init => IInv
<1> SUFFICES ASSUME Init PROVE IInv
  OBVIOUS
<1>1. \A t \in Thread, p \in Place : pointer[<<t, p>>] = NULL
  BY DEF Init
<1>2. TypeOK
  BY DEF Init, TypeOK
<1>3. TextsAreOwned
  BY PointerAssumption DEF Init, TextsAreOwned, Held
<1>4. InHand
  BY <1>1 DEF Init, InHand, slot, Place
<1>5. OwnError
  BY <1>1 DEF Init, OwnError, slot, Place
<1> QED BY <1>2, <1>3, <1>4, <1>5 DEF IInv

-----------------------------------------------------------------------------
(* What the steps are made of.                                             *)

\* The pointers after set_error: one of two is new, the others stay.
LEMMA SetErrorPointers ==
  ASSUME TypeOK, NEW t \in Thread, NEW e \in Error \cup {NULL}, SetError(t, e)
  PROVE  /\ pointer' \in [Thread \X Place -> Error \cup {NULL}]
         /\ pointer'[<<t, "slot">>] = e /\ pointer'[<<t, "text">>] = NULL
         /\ \A p \in Thread \X Place :
              p # <<t, "slot">> /\ p # <<t, "text">> => pointer'[p] = pointer[p]
         /\ live' = live \ {slot(t)}
BY DEF TypeOK, SetError, Place

\* set_error keeps texts apart, if the new error is none that is in use: it is
\* in the hands of the same errorf, or is no text.
LEMMA SetErrorOwned ==
  ASSUME TypeOK, TextsAreOwned, NEW t \in Thread, NEW e \in Error \cup {NULL},
         e \in Text => e = pointer[<<t, "text">>], SetError(t, e)
  PROVE  TextsAreOwned'
<1> DEFINE s == <<t, "slot">>
           x == <<t, "text">>
<1>1. s \in Thread \X Place /\ x \in Thread \X Place /\ s # x
  BY DEF Place
<1>2. /\ pointer'[s] = e /\ pointer'[x] = NULL /\ live' = live \ {pointer[s]}
      /\ \A p \in Thread \X Place : p # s /\ p # x => pointer'[p] = pointer[p]
  BY SetErrorPointers DEF slot
<1>3. \A p \in Thread \X Place : pointer[p] \in Text => pointer[p] \in live
  BY DEF TextsAreOwned, Held
<1>4. \A p, q \in Thread \X Place : p # q /\ pointer[p] \in Text => pointer[p] # pointer[q]
  BY DEF TextsAreOwned
<1>5. ASSUME NEW p \in Thread \X Place, pointer'[p] \in Text PROVE pointer'[p] \in live'
  <2>1. CASE p = s
    BY <1>1, <1>2, <1>3, <1>4, <1>5, <2>1
  <2>2. CASE p = x
    BY <1>2, <1>5, <2>2, PointerAssumption
  <2>3. CASE p # s /\ p # x
    BY <1>1, <1>2, <1>3, <1>4, <1>5, <2>3
  <2> QED BY <2>1, <2>2, <2>3
<1>6. ASSUME NEW p \in Thread \X Place, NEW q \in Thread \X Place, p # q, pointer'[p] \in Text
      PROVE  pointer'[p] # pointer'[q]
  <2>1. p # x
    BY <1>2, <1>6, PointerAssumption
  <2>2. CASE q = x
    BY <1>2, <1>6, <2>2, PointerAssumption
  <2>3. CASE p = s /\ q # x
    BY <1>1, <1>2, <1>4, <1>6, <2>3
  <2>4. CASE q = s /\ p # s
    BY <1>1, <1>2, <1>4, <1>6, <2>1, <2>4
  <2>5. CASE p # s /\ q # s /\ q # x
    BY <1>2, <1>4, <1>6, <2>1, <2>5
  <2> QED BY <1>6, <2>1, <2>2, <2>3, <2>4, <2>5
<1> QED BY <1>5, <1>6 DEF TextsAreOwned, Held

\* A new block is none that a pointer leads to.
LEMMA AllocateOwned ==
  ASSUME TypeOK, TextsAreOwned, NEW t \in Thread, NEW place \in Place, NEW e \in Text,
         Allocate(t, place, e)
  PROVE  /\ TextsAreOwned'
         /\ pointer' \in [Thread \X Place -> Error \cup {NULL}]
         /\ pointer'[<<t, place>>] = e
         /\ \A p \in Thread \X Place : p # <<t, place>> => pointer'[p] = pointer[p] /\ pointer[p] # e
<1>1. /\ pointer' = [pointer EXCEPT ![<<t, place>>] = e] /\ live' = live \cup {e} /\ e \notin live
      /\ pointer \in [Thread \X Place -> Error \cup {NULL}]
  BY DEF Allocate, TypeOK
<1>2. \A p \in Thread \X Place : pointer[p] \in Text => pointer[p] \in live
  BY DEF TextsAreOwned, Held
<1>3. \A p, q \in Thread \X Place : p # q /\ pointer[p] \in Text => pointer[p] # pointer[q]
  BY DEF TextsAreOwned
<1>4. /\ pointer' \in [Thread \X Place -> Error \cup {NULL}]
      /\ pointer'[<<t, place>>] = e
      /\ \A p \in Thread \X Place : p # <<t, place>> => pointer'[p] = pointer[p] /\ pointer[p] # e
  BY <1>1, <1>2 DEF Error
<1>5. \A p \in Thread \X Place : pointer'[p] \in Text => pointer'[p] \in live'
  BY <1>1, <1>2, <1>4
<1>6. \A p, q \in Thread \X Place : p # q /\ pointer'[p] \in Text => pointer'[p] # pointer'[q]
  BY <1>3, <1>4
<1>7. TextsAreOwned'
  BY <1>5, <1>6 DEF TextsAreOwned, Held
<1> QED BY <1>4, <1>7

-----------------------------------------------------------------------------
(* The steps that set an error.                                            *)

\* A step of thread t that sets error e and counts it, or counts that there was
\* no memory for one.
LEMMA SetErrorIInv ==
  ASSUME IInv, NEW t \in Thread, pc[t] # "user", NEW e \in {NULL, error_out_of_memory},
         SetError(t, e), Raises(t, error_out_of_memory),
         NEW to \in {"called", "shown", "failed"}, pc' = [pc EXCEPT ![t] = to],
         to # "shown" => pointer[<<t, "message">>] = NULL,
         UNCHANGED <<initialized, running>>
  PROVE  IInv'
<1> USE DEF IInv
<1>1. /\ pointer' \in [Thread \X Place -> Error \cup {NULL}]
      /\ pointer'[<<t, "slot">>] = e /\ pointer'[<<t, "text">>] = NULL
      /\ \A p \in Thread \X Place :
           p # <<t, "slot">> /\ p # <<t, "text">> => pointer'[p] = pointer[p]
      /\ live' = live \ {slot(t)}
  BY SetErrorPointers DEF Error
<1>2. /\ raised \in [Thread -> SUBSET Error] /\ recent \in [Thread -> SUBSET Error]
      /\ pc \in [Thread -> {"user", "called", "message", "text", "shown", "failed"}]
  BY DEF TypeOK
<1>3. /\ raised'[t] = raised[t] \cup {error_out_of_memory}
      /\ recent'[t] = recent[t] \cup {error_out_of_memory}
      /\ \A u \in Thread \ {t} : raised'[u] = raised[u] /\ recent'[u] = recent[u]
      /\ raised' \in [Thread -> SUBSET Error] /\ recent' \in [Thread -> SUBSET Error]
  BY <1>2, PointerAssumption DEF Raises, Error
<1>4. pc'[t] = to /\ \A u \in Thread \ {t} : pc'[u] = pc[u]
  BY <1>2
<1>5. TypeOK'
  BY <1>1, <1>2, <1>3 DEF TypeOK
<1>6. TextsAreOwned'
  BY SetErrorOwned, PointerAssumption DEF Error
<1>7. /\ pointer'[<<t, "message">>] = pointer[<<t, "message">>]
      /\ \A u \in Thread \ {t}, p \in Place : pointer'[<<u, p>>] = pointer[<<u, p>>]
  BY <1>1 DEF Place
<1>8. InHand'
  <2> SUFFICES ASSUME NEW u \in Thread PROVE
        /\ pc'[u] # "user" => initialized' /\ u \in running'
        /\ pointer'[<<u, "message">>] # NULL => pc'[u] \in {"message", "text", "shown"}
        /\ pointer'[<<u, "text">>] # NULL => pc'[u] = "text"
        /\ pc'[u] = "text" => pointer'[<<u, "text">>] \in recent'[u]
        /\ pointer'[<<u, "slot">>] # NULL => initialized' /\ u \in running'
    BY DEF InHand, slot
  <2>1. CASE u = t
    BY <1>1, <1>4, <1>7, <2>1 DEF InHand
  <2>2. CASE u # t
    BY <1>3, <1>4, <1>7, <2>2 DEF InHand, slot, Place
  <2> QED BY <2>1, <2>2
<1>9. OwnError'
  <2> SUFFICES ASSUME NEW u \in Thread PROVE
        /\ recent'[u] \subseteq raised'[u]
        /\ pointer'[<<u, "slot">>] \in raised'[u] \cup {NULL}
        /\ initialized' /\ u \in running' /\ pc'[u] # "text" /\ recent'[u] # {} =>
             \/ pointer'[<<u, "slot">>] \in recent'[u]
             \/ pointer'[<<u, "slot">>] = NULL /\ error_out_of_memory \in recent'[u]
    BY DEF OwnError, slot
  <2>1. CASE u = t
    BY <1>1, <1>3, <2>1 DEF OwnError
  <2>2. CASE u # t
    BY <1>3, <1>4, <1>7, <2>2 DEF OwnError, slot, Place
  <2> QED BY <2>1, <2>2
<1> QED BY <1>5, <1>6, <1>8, <1>9

LEMMA FormatMessageIInv == ASSUME IInv, NEW t \in Thread, FormatMessage(t) PROVE IInv'
<1> USE DEF IInv
<1>1. PICK e \in Text : Allocate(t, "message", e) /\ Reused(e)
  BY DEF FormatMessage
<1>2. /\ TextsAreOwned'
      /\ pointer' \in [Thread \X Place -> Error \cup {NULL}]
      /\ pointer'[<<t, "message">>] = e
      /\ \A p \in Thread \X Place : p # <<t, "message">> => pointer'[p] = pointer[p] /\ pointer[p] # e
  BY <1>1, AllocateOwned DEF Place
<1>3. /\ raised \in [Thread -> SUBSET Error] /\ recent \in [Thread -> SUBSET Error]
      /\ pc \in [Thread -> {"user", "called", "message", "text", "shown", "failed"}]
  BY DEF TypeOK
<1>4. pc[t] = "called" /\ pc'[t] = "message" /\ \A u \in Thread \ {t} : pc'[u] = pc[u]
  BY <1>3 DEF FormatMessage, Goes
<1>5. /\ \A u \in Thread : raised'[u] = raised[u] \ {e} /\ recent'[u] = recent[u] \ {e}
      /\ raised' \in [Thread -> SUBSET Error] /\ recent' \in [Thread -> SUBSET Error]
  BY <1>1, <1>3 DEF Reused
<1>6. TypeOK'
  BY <1>1, <1>2, <1>5 DEF TypeOK, FormatMessage, Goes, Allocate
<1>7. /\ \A u \in Thread : pointer'[<<u, "slot">>] = pointer[<<u, "slot">>] /\ pointer[<<u, "slot">>] # e
      /\ \A u \in Thread : pointer'[<<u, "text">>] = pointer[<<u, "text">>] /\ pointer[<<u, "text">>] # e
      /\ \A u \in Thread \ {t} : pointer'[<<u, "message">>] = pointer[<<u, "message">>]
  BY <1>2 DEF Place
<1>8. initialized' = initialized /\ running' = running
  BY DEF FormatMessage
<1>9. InHand'
  <2> SUFFICES ASSUME NEW u \in Thread PROVE
          /\ pc'[u] # "user" => initialized' /\ u \in running'
          /\ pointer'[<<u, "message">>] # NULL => pc'[u] \in {"message", "text", "shown"}
          /\ pointer'[<<u, "text">>] # NULL => pc'[u] = "text"
          /\ pc'[u] = "text" => pointer'[<<u, "text">>] \in recent'[u]
          /\ pointer'[<<u, "slot">>] # NULL => initialized' /\ u \in running'
    BY DEF InHand, slot
  <2>1. CASE u = t
    BY <1>2, <1>4, <1>5, <1>7, <1>8, <2>1 DEF InHand, slot
  <2>2. CASE u # t
    BY <1>4, <1>5, <1>7, <1>8, <2>2 DEF InHand, slot
  <2> QED BY <2>1, <2>2
<1>10. e # error_out_of_memory
  BY PointerAssumption
<1>11. OwnError'
  <2> SUFFICES ASSUME NEW u \in Thread PROVE
        /\ recent'[u] \subseteq raised'[u]
        /\ pointer'[<<u, "slot">>] \in raised'[u] \cup {NULL}
        /\ initialized' /\ u \in running' /\ pc'[u] # "text" /\ recent'[u] # {} =>
             \/ pointer'[<<u, "slot">>] \in recent'[u]
             \/ pointer'[<<u, "slot">>] = NULL /\ error_out_of_memory \in recent'[u]
    BY DEF OwnError, slot
  <2>1. CASE u = t
    BY <1>4, <1>5, <1>7, <1>8, <1>10, <2>1 DEF OwnError, slot
  <2>2. CASE u # t
    BY <1>4, <1>5, <1>7, <1>8, <1>10, <2>2 DEF OwnError, slot
  <2> QED BY <2>1, <2>2
<1> QED BY <1>2, <1>6, <1>9, <1>11

LEMMA FormatTextIInv == ASSUME IInv, NEW t \in Thread, FormatText(t) PROVE IInv'
<1> USE DEF IInv
<1>1. PICK e \in Text : Allocate(t, "text", e) /\ Raises(t, e)
  BY DEF FormatText
<1>2. /\ TextsAreOwned'
      /\ pointer' \in [Thread \X Place -> Error \cup {NULL}]
      /\ pointer'[<<t, "text">>] = e
      /\ \A p \in Thread \X Place : p # <<t, "text">> => pointer'[p] = pointer[p] /\ pointer[p] # e
  BY <1>1, AllocateOwned DEF Place
<1>3. /\ raised \in [Thread -> SUBSET Error] /\ recent \in [Thread -> SUBSET Error]
      /\ pc \in [Thread -> {"user", "called", "message", "text", "shown", "failed"}]
  BY DEF TypeOK
<1>4. pc[t] = "message" /\ pc'[t] = "text" /\ \A u \in Thread \ {t} : pc'[u] = pc[u]
  BY <1>3 DEF FormatText, Goes
<1>5. /\ raised'[t] = raised[t] \cup {e} /\ recent'[t] = recent[t] \cup {e}
      /\ \A u \in Thread \ {t} : raised'[u] = raised[u] \ {e} /\ recent'[u] = recent[u] \ {e}
      /\ raised' \in [Thread -> SUBSET Error] /\ recent' \in [Thread -> SUBSET Error]
  BY <1>1, <1>3 DEF Raises, Error
<1>6. TypeOK'
  BY <1>1, <1>2, <1>5 DEF TypeOK, FormatText, Goes, Allocate
<1>7. /\ \A u \in Thread : pointer'[<<u, "slot">>] = pointer[<<u, "slot">>] /\ pointer[<<u, "slot">>] # e
      /\ \A u \in Thread : pointer'[<<u, "message">>] = pointer[<<u, "message">>]
      /\ \A u \in Thread \ {t} : pointer'[<<u, "text">>] = pointer[<<u, "text">>] /\ pointer[<<u, "text">>] # e
  BY <1>2 DEF Place
<1>8. initialized' = initialized /\ running' = running
  BY DEF FormatText
<1>9. InHand'
  <2> SUFFICES ASSUME NEW u \in Thread PROVE
        /\ pc'[u] # "user" => initialized' /\ u \in running'
        /\ pointer'[<<u, "message">>] # NULL => pc'[u] \in {"message", "text", "shown"}
        /\ pointer'[<<u, "text">>] # NULL => pc'[u] = "text"
        /\ pc'[u] = "text" => pointer'[<<u, "text">>] \in recent'[u]
        /\ pointer'[<<u, "slot">>] # NULL => initialized' /\ u \in running'
    BY DEF InHand, slot
  <2>1. CASE u = t
    BY <1>2, <1>4, <1>5, <1>7, <1>8, <2>1 DEF InHand, slot
  <2>2. CASE u # t
    BY <1>4, <1>5, <1>7, <1>8, <2>2 DEF InHand, slot
  <2> QED BY <2>1, <2>2
<1>10. e # error_out_of_memory
  BY PointerAssumption
<1>11. OwnError'
  <2> SUFFICES ASSUME NEW u \in Thread PROVE
        /\ recent'[u] \subseteq raised'[u]
        /\ pointer'[<<u, "slot">>] \in raised'[u] \cup {NULL}
        /\ initialized' /\ u \in running' /\ pc'[u] # "text" /\ recent'[u] # {} =>
             \/ pointer'[<<u, "slot">>] \in recent'[u]
             \/ pointer'[<<u, "slot">>] = NULL /\ error_out_of_memory \in recent'[u]
    BY DEF OwnError, slot
  <2>1. CASE u = t
    BY <1>4, <1>5, <1>7, <1>8, <1>10, <2>1 DEF OwnError, slot
  <2>2. CASE u # t
    BY <1>4, <1>5, <1>7, <1>8, <1>10, <2>2 DEF OwnError, slot
  <2> QED BY <2>1, <2>2
<1> QED BY <1>2, <1>6, <1>9, <1>11

LEMMA ShowTextIInv == ASSUME IInv, NEW t \in Thread, ShowText(t) PROVE IInv'
<1> USE DEF IInv
<1> DEFINE e == pointer[<<t, "text">>]
<1>1. /\ SetError(t, e) /\ UNCHANGED <<initialized, running, raised, recent>>
      /\ pc[t] = "text"
  BY DEF ShowText, Goes, text
<1>2. e \in Error \cup {NULL} /\ e \in recent[t]
  BY <1>1 DEF TypeOK, Place, InHand
<1>3. /\ pointer' \in [Thread \X Place -> Error \cup {NULL}]
      /\ pointer'[<<t, "slot">>] = e /\ pointer'[<<t, "text">>] = NULL
      /\ \A p \in Thread \X Place :
           p # <<t, "slot">> /\ p # <<t, "text">> => pointer'[p] = pointer[p]
      /\ live' = live \ {slot(t)}
  BY <1>1, <1>2, SetErrorPointers
<1>4. pc'[t] = "shown" /\ \A u \in Thread \ {t} : pc'[u] = pc[u]
  BY DEF ShowText, Goes, TypeOK
<1>5. TypeOK'
  BY <1>1, <1>3 DEF TypeOK, ShowText, Goes
<1>6. TextsAreOwned'
  BY <1>1, <1>2, SetErrorOwned
<1>7. /\ \A u \in Thread : pointer'[<<u, "message">>] = pointer[<<u, "message">>]
      /\ \A u \in Thread \ {t}, p \in Place : pointer'[<<u, p>>] = pointer[<<u, p>>]
  BY <1>3 DEF Place
<1>8. InHand'
  BY <1>1, <1>3, <1>4, <1>7 DEF InHand, slot, Place
<1>9. OwnError'
  BY <1>1, <1>2, <1>3, <1>4, <1>7 DEF OwnError, slot, Place
<1> QED BY <1>5, <1>6, <1>8, <1>9

-----------------------------------------------------------------------------
(* The other steps.                                                        *)

\* The slot of thread t is emptied: its call of json_parse begins, or it ends.
LEMMA ClearedIInv ==
  ASSUME IInv, NEW t \in Thread, pc[t] = "user", SetError(t, NULL),
         ParseBegins(t) \/ EndThread(t)
  PROVE  IInv'
<1> USE DEF IInv
<1>1. /\ pointer' \in [Thread \X Place -> Error \cup {NULL}]
      /\ pointer'[<<t, "slot">>] = NULL /\ pointer'[<<t, "text">>] = NULL
      /\ \A p \in Thread \X Place :
           p # <<t, "slot">> /\ p # <<t, "text">> => pointer'[p] = pointer[p]
      /\ live' = live \ {slot(t)}
  BY SetErrorPointers
<1>2. TextsAreOwned'
  BY SetErrorOwned, PointerAssumption
<1>3. /\ pointer'[<<t, "message">>] = pointer[<<t, "message">>] /\ pointer[<<t, "message">>] = NULL
      /\ \A u \in Thread \ {t}, p \in Place : pointer'[<<u, p>>] = pointer[<<u, p>>]
  BY <1>1 DEF Place, InHand
<1>4. CASE ParseBegins(t)
  <2>1. TypeOK'
    BY <1>1, <1>4 DEF TypeOK, ParseBegins, Goes
  <2>2. /\ pc'[t] = "called" /\ raised'[t] = {} /\ recent'[t] = {}
        /\ \A u \in Thread \ {t} :
             pc'[u] = pc[u] /\ raised'[u] = raised[u] /\ recent'[u] = recent[u]
        /\ initialized' = initialized /\ running' = running /\ initialized /\ t \in running
    BY <1>4 DEF TypeOK, ParseBegins, Goes
  <2>3. InHand'
    <3> SUFFICES ASSUME NEW u \in Thread PROVE
            /\ pc'[u] # "user" => initialized' /\ u \in running'
            /\ pointer'[<<u, "message">>] # NULL => pc'[u] \in {"message", "text", "shown"}
            /\ pointer'[<<u, "text">>] # NULL => pc'[u] = "text"
            /\ pc'[u] = "text" => pointer'[<<u, "text">>] \in recent'[u]
            /\ pointer'[<<u, "slot">>] # NULL => initialized' /\ u \in running'
      BY DEF InHand, slot
    <3>1. CASE u = t
      BY <1>1, <1>3, <2>2, <3>1 DEF InHand, slot
    <3>2. CASE u # t
      BY <1>3, <2>2, <3>2 DEF InHand, slot, Place
    <3> QED BY <3>1, <3>2
  <2>4. OwnError'
    BY <1>1, <1>3, <2>2 DEF OwnError, slot, Place
  <2> QED BY <1>2, <2>1, <2>3, <2>4
<1>5. CASE EndThread(t)
  <2>1. TypeOK'
    BY <1>1, <1>5 DEF TypeOK, EndThread
  <2>2. /\ running' = running \ {t}
        /\ UNCHANGED <<initialized, pc, raised, recent>>
    BY <1>5 DEF EndThread
  <2>3. InHand'
    <3> SUFFICES ASSUME NEW u \in Thread PROVE
            /\ pc'[u] # "user" => initialized' /\ u \in running'
            /\ pointer'[<<u, "message">>] # NULL => pc'[u] \in {"message", "text", "shown"}
            /\ pointer'[<<u, "text">>] # NULL => pc'[u] = "text"
            /\ pc'[u] = "text" => pointer'[<<u, "text">>] \in recent'[u]
            /\ pointer'[<<u, "slot">>] # NULL => initialized' /\ u \in running'
      BY DEF InHand, slot
    <3>1. CASE u = t
      BY <1>1, <1>3, <2>2, <3>1 DEF InHand, slot
    <3>2. CASE u # t
      BY <1>3, <2>2, <3>2 DEF InHand, slot, Place
    <3> QED BY <3>1, <3>2
  <2>4. OwnError'
    BY <1>1, <1>3, <2>2 DEF OwnError, slot, Place
  <2> QED BY <1>2, <2>1, <2>3, <2>4
<1> QED BY <1>4, <1>5

LEMMA FreeMessageIInv == ASSUME IInv, NEW t \in Thread, FreeMessage(t) PROVE IInv'
<1> USE DEF IInv
<1> DEFINE m == <<t, "message">>
<1>1. /\ pc[t] = "shown" /\ pc' = [pc EXCEPT ![t] = "failed"]
      /\ live' = live \ {pointer[m]} /\ pointer' = [pointer EXCEPT ![m] = NULL]
      /\ UNCHANGED <<initialized, running, raised, recent>>
  BY DEF FreeMessage, Goes, message
<1>2. m \in Thread \X Place /\ pointer \in [Thread \X Place -> Error \cup {NULL}]
  BY DEF Place, TypeOK
<1>3. /\ pointer' \in [Thread \X Place -> Error \cup {NULL}] /\ pointer'[m] = NULL
      /\ \A p \in Thread \X Place : p # m => pointer'[p] = pointer[p]
  BY <1>1, <1>2
<1>4. TypeOK'
  BY <1>1, <1>3 DEF TypeOK
<1>5. \A p \in Thread \X Place : pointer[p] \in Text => pointer[p] \in live
  BY DEF TextsAreOwned, Held
<1>6. \A p, q \in Thread \X Place : p # q /\ pointer[p] \in Text => pointer[p] # pointer[q]
  BY DEF TextsAreOwned
<1>7. ASSUME NEW p \in Thread \X Place, pointer'[p] \in Text PROVE p # m /\ pointer'[p] \in live'
  BY <1>1, <1>2, <1>3, <1>5, <1>6, <1>7, PointerAssumption
<1>8. ASSUME NEW p \in Thread \X Place, NEW q \in Thread \X Place, p # q, pointer'[p] \in Text
      PROVE  pointer'[p] # pointer'[q]
  BY <1>3, <1>6, <1>8, PointerAssumption
<1>9. TextsAreOwned'
  BY <1>7, <1>8 DEF TextsAreOwned, Held
<1>10. /\ \A u \in Thread : pointer'[<<u, "slot">>] = pointer[<<u, "slot">>]
       /\ \A u \in Thread : pointer'[<<u, "text">>] = pointer[<<u, "text">>]
       /\ \A u \in Thread \ {t} : pointer'[<<u, "message">>] = pointer[<<u, "message">>]
  BY <1>3 DEF Place
<1>11. pc'[t] = "failed" /\ \A u \in Thread \ {t} : pc'[u] = pc[u]
  BY <1>1 DEF TypeOK
<1>12. InHand'
  <2>1. ASSUME NEW u \in Thread PROVE
          /\ pc'[u] # "user" => initialized' /\ u \in running'
          /\ pointer'[<<u, "message">>] # NULL => pc'[u] \in {"message", "text", "shown"}
          /\ pointer'[<<u, "text">>] # NULL => pc'[u] = "text"
          /\ pc'[u] = "text" => pointer'[<<u, "text">>] \in recent'[u]
          /\ pointer'[<<u, "slot">>] # NULL => initialized' /\ u \in running'
    <3>1. CASE u = t
      BY <1>1, <1>3, <1>10, <1>11, <3>1 DEF InHand, slot
    <3>2. CASE u # t
      BY <1>1, <1>10, <1>11, <3>2 DEF InHand, slot
    <3> QED BY <3>1, <3>2
  <2> QED BY <2>1 DEF InHand, slot
<1>13. OwnError'
  BY <1>1, <1>10, <1>11 DEF OwnError, slot
<1> QED BY <1>4, <1>9, <1>12, <1>13

\* A call begins or returns, and leaves blocks and pointers alone.
LEMMA CallIInv == ASSUME IInv, NEW t \in Thread, CallBegins(t) \/ Return(t) PROVE IInv'
<1> USE DEF IInv
<1>1. UNCHANGED <<initialized, running, pointer, live, raised>>
  BY DEF CallBegins, Return
<1>2. PICK to \in {"user", "called"} :
        /\ pc[t] # "text" /\ pc' = [pc EXCEPT ![t] = to]
        /\ pc[t] \notin {"message", "text", "shown"}
        /\ to = "called" => initialized /\ t \in running
  BY DEF CallBegins, Return, Goes
<1>3. recent' = recent \/ recent' = [recent EXCEPT ![t] = {}]
  BY DEF CallBegins, Return
<1>4. TypeOK'
  BY <1>1, <1>2, <1>3 DEF TypeOK
<1>5. TextsAreOwned'
  BY <1>1 DEF TextsAreOwned, Held
<1>6. /\ pc'[t] = to /\ \A u \in Thread \ {t} : pc'[u] = pc[u]
      /\ recent'[t] = recent[t] \/ recent'[t] = {}
      /\ \A u \in Thread \ {t} : recent'[u] = recent[u]
  BY <1>2, <1>3 DEF TypeOK
<1>7. InHand'
  BY <1>1, <1>2, <1>6 DEF InHand, slot
<1>8. OwnError'
  BY <1>1, <1>2, <1>6 DEF OwnError, slot
<1> QED BY <1>4, <1>5, <1>7, <1>8

\* json_init and json_exit, with which all pointers are NULL.
LEMMA LibraryIInv ==
  ASSUME IInv, InitLibrary \/ \E t \in Thread : ExitLibrary(t)
  PROVE  IInv'
<1> USE DEF IInv
<1>1. /\ pointer' = [tp \in Thread \X Place |-> NULL] /\ UNCHANGED <<running, pc>>
      /\ initialized' \in BOOLEAN /\ live' \subseteq live
  BY DEF InitLibrary, ExitLibrary
<1>2. \A t \in Thread : pc[t] = "user"
  <2>1. CASE InitLibrary
    BY <2>1 DEF InitLibrary, InHand
  <2>2. CASE \E t \in Thread : ExitLibrary(t)
    BY <2>2 DEF ExitLibrary, Idle
  <2> QED BY <2>1, <2>2
<1>3. \/ raised' = raised /\ recent' = recent /\ ~initialized'
      \/ raised' = [t \in Thread |-> {}] /\ recent' = [t \in Thread |-> {}]
  BY DEF InitLibrary, ExitLibrary
<1>4. \A t \in Thread, p \in Place : pointer'[<<t, p>>] = NULL
  BY <1>1
<1>5. TypeOK'
  BY <1>1, <1>3 DEF TypeOK
<1>6. TextsAreOwned'
  BY <1>1, PointerAssumption DEF TextsAreOwned, Held
<1>7. InHand'
  BY <1>1, <1>2, <1>4 DEF InHand, slot, Place
<1>8. OwnError'
  BY <1>1, <1>3, <1>4 DEF OwnError, slot, Place
<1> QED BY <1>5, <1>6, <1>7, <1>8

LEMMA NextIInv == ASSUME IInv, Next PROVE IInv'
<1>1. CASE InitLibrary \/ \E t \in Thread : ExitLibrary(t)
  BY <1>1, LibraryIInv
<1>2. ASSUME NEW t \in Thread, EndThread(t) PROVE IInv'
  BY <1>2, ClearedIInv DEF EndThread
<1>3. ASSUME NEW t \in Thread, ParseBegins(t) PROVE IInv'
  BY <1>3, ClearedIInv DEF ParseBegins, Goes
<1>4. ASSUME NEW t \in Thread, CallBegins(t) \/ Return(t) PROVE IInv'
  BY <1>4, CallIInv
<1>5. ASSUME NEW t \in Thread, OutOfMemory(t) PROVE IInv'
  <2>1. pc \in [Thread -> {"user", "called", "message", "text", "shown", "failed"}]
    BY DEF IInv, TypeOK
  <2>2. pc[t] = "called" /\ pc' = [pc EXCEPT ![t] = "called"]
    BY <1>5, <2>1 DEF OutOfMemory
  <2>3. pointer[<<t, "message">>] = NULL
    BY <2>2 DEF IInv, InHand
  <2> QED BY <1>5, <2>2, <2>3, SetErrorIInv DEF OutOfMemory
<1>6. ASSUME NEW t \in Thread, NoMessage(t) PROVE IInv'
  <2>1. pc[t] = "called" /\ pc' = [pc EXCEPT ![t] = "failed"]
    BY <1>6 DEF NoMessage, Goes
  <2>2. pointer[<<t, "message">>] = NULL
    BY <2>1 DEF IInv, InHand
  <2> QED BY <1>6, <2>1, <2>2, SetErrorIInv DEF NoMessage
<1>7. ASSUME NEW t \in Thread, NoText(t) PROVE IInv'
  <2>1. pc[t] = "message" /\ pc' = [pc EXCEPT ![t] = "shown"]
    BY <1>7 DEF NoText, Goes
  <2> QED BY <1>7, <2>1, SetErrorIInv DEF NoText
<1> QED BY <1>1, <1>2, <1>3, <1>4, <1>5, <1>6, <1>7,
           FormatMessageIInv, FormatTextIInv, ShowTextIInv, FreeMessageIInv DEF Next, Errorf

LEMMA SpecIInv == Spec => []IInv
<1>1. IInv /\ UNCHANGED vars => IInv'
  <2> SUFFICES ASSUME IInv, UNCHANGED vars PROVE IInv'
    OBVIOUS
  <2>1. UNCHANGED initialized /\ UNCHANGED running /\ UNCHANGED pc /\ UNCHANGED pointer
        /\ UNCHANGED live /\ UNCHANGED raised /\ UNCHANGED recent
    BY DEF vars
  <2>2. TypeOK' /\ TextsAreOwned'
    BY <2>1 DEF IInv, TypeOK, TextsAreOwned, Held
  <2>3. InHand'
    BY <2>1 DEF IInv, InHand, slot
  <2>4. OwnError'
    BY <2>1 DEF IInv, OwnError, slot
  <2> QED BY <2>2, <2>3, <2>4 DEF IInv
<1>2. IInv /\ [Next]_vars => IInv'
  BY <1>1, NextIInv
<1> QED BY InitIInv, <1>2, PTL DEF Spec

-----------------------------------------------------------------------------
(* The theorems.                                                           *)

\* However the calls of any number of threads interleave, fail, run out of
\* memory, and threads end and call json_exit, no text of an error is freed
\* twice, shared by two threads or kept after it was freed.
THEOREM NoTextIsShared == Spec => []TextsAreOwned
<1>1. IInv => TextsAreOwned
  BY DEF IInv
<1> QED BY <1>1, SpecIInv, PTL

\* json_strerror shows a thread an error that its last call has raised; if that
\* raised none, one of an earlier call of the same thread, but of none before
\* its last json_parse; and never what another thread has written into the
\* block.  An error that was raised is dropped only if memory ran out.
THEOREM ErrorsAreOfTheThread == Spec => []ShownIsOwn
<1>1. IInv => ShownIsOwn
  BY DEF IInv, TypeOK, OwnError, ShownIsOwn
<1> QED BY <1>1, SpecIInv, PTL

\* What set_error takes out of the slot is freed, and what it puts there was in
\* the hands of the same errorf: nothing is forgotten.
LEMMA SetErrorForgetsNothing ==
  ASSUME TypeOK, TextsAreOwned, NEW t \in Thread, NEW e \in Error \cup {NULL},
         pointer[<<t, "text">>] \in {NULL, e}, e \in Text => e = pointer[<<t, "text">>],
         SetError(t, e)
  PROVE  Forgotten' = Forgotten
<1> DEFINE s == <<t, "slot">>
           x == <<t, "text">>
<1>1. s \in Thread \X Place /\ x \in Thread \X Place /\ s # x
  BY DEF Place
<1>2. /\ pointer'[s] = e /\ pointer'[x] = NULL /\ live' = live \ {pointer[s]}
      /\ \A p \in Thread \X Place : p # s /\ p # x => pointer'[p] = pointer[p]
  BY SetErrorPointers DEF slot
<1>3. \A p, q \in Thread \X Place : p # q /\ pointer[p] \in Text => pointer[p] # pointer[q]
  BY DEF TextsAreOwned
<1>4. ASSUME NEW y \in Text PROVE y \in Held' <=> y \in Held /\ y # pointer[s]
  <2>1. y \in Held' <=> \E p \in Thread \X Place : pointer'[p] = y
    BY DEF Held
  <2>2. y \in Held <=> \E p \in Thread \X Place : pointer[p] = y
    BY DEF Held
  <2>3. ASSUME NEW p \in Thread \X Place, pointer'[p] = y PROVE y \in Held /\ y # pointer[s]
    <3>1. CASE p = s
      BY <1>1, <1>2, <1>3, <2>2, <2>3, <3>1
    <3>2. CASE p = x
      BY <1>2, <2>3, <3>2, PointerAssumption
    <3>3. CASE p # s /\ p # x
      BY <1>1, <1>2, <1>3, <2>2, <2>3, <3>3
    <3> QED BY <3>1, <3>2, <3>3
  <2>4. ASSUME NEW p \in Thread \X Place, pointer[p] = y, y # pointer[s] PROVE y \in Held'
    <3>1. CASE p = x
      <4>1. e = y
        BY <2>4, <3>1, PointerAssumption
      <4> QED BY <1>1, <1>2, <2>1, <4>1
    <3>2. CASE p # x
      <4>1. p # s
        BY <2>4
      <4> QED BY <1>2, <2>1, <2>4, <3>2, <4>1
    <3> QED BY <3>1, <3>2
  <2> QED BY <2>1, <2>2, <2>3, <2>4
<1>5. \A y \in Text : y \in Forgotten' <=> y \in Forgotten
  <2> SUFFICES ASSUME NEW y \in Text PROVE y \in Forgotten' <=> y \in Forgotten
    OBVIOUS
  <2>1. y = pointer[s] => y \in Held
    BY <1>1 DEF Held
  <2> QED BY <1>2, <1>4, <2>1 DEF Forgotten
<1>6. Forgotten \subseteq Text /\ Forgotten' \subseteq Text
  BY <1>2 DEF TypeOK, Forgotten
<1> QED BY <1>5, <1>6

\* A new block is in the hands of errorf.
LEMMA AllocateForgetsNothing ==
  ASSUME TypeOK, TextsAreOwned, NEW t \in Thread, NEW place \in Place, NEW e \in Text,
         pointer[<<t, place>>] = NULL, Allocate(t, place, e)
  PROVE  Forgotten' = Forgotten
<1> DEFINE a == <<t, place>>
<1>1. /\ pointer'[a] = e /\ live' = live \cup {e} /\ e \notin live
      /\ \A p \in Thread \X Place : p # a => pointer'[p] = pointer[p]
  BY AllocateOwned DEF Allocate
<1>2. Held' = Held \cup {e}
  <2>1. ASSUME NEW y \in Text PROVE y \in Held' <=> y \in Held \cup {e}
    <3>1. y \in Held' <=> \E p \in Thread \X Place : pointer'[p] = y
      BY DEF Held
    <3>2. y \in Held <=> \E p \in Thread \X Place : pointer[p] = y
      BY DEF Held
    <3>3. a \in Thread \X Place /\ pointer[a] # y
      BY PointerAssumption
    <3> QED BY <1>1, <3>1, <3>2, <3>3
  <2> QED BY <2>1 DEF Held
<1> QED BY <1>1, <1>2 DEF Forgotten

LEMMA FreeMessageForgetsNothing ==
  ASSUME TypeOK, TextsAreOwned, NEW t \in Thread, FreeMessage(t)
  PROVE  Forgotten' = Forgotten
<1> DEFINE m == <<t, "message">>
<1>1. /\ m \in Thread \X Place /\ pointer \in [Thread \X Place -> Error \cup {NULL}]
      /\ live' = live \ {pointer[m]} /\ pointer' = [pointer EXCEPT ![m] = NULL]
  BY DEF FreeMessage, message, Place, TypeOK
<1>2. pointer'[m] = NULL /\ \A p \in Thread \X Place : p # m => pointer'[p] = pointer[p]
  BY <1>1
<1>3. \A p, q \in Thread \X Place : p # q /\ pointer[p] \in Text => pointer[p] # pointer[q]
  BY DEF TextsAreOwned
<1>4. ASSUME NEW y \in Text PROVE y \in Held' <=> y \in Held /\ y # pointer[m]
  <2>1. y \in Held' <=> \E p \in Thread \X Place : pointer'[p] = y
    BY DEF Held
  <2>2. y \in Held <=> \E p \in Thread \X Place : pointer[p] = y
    BY DEF Held
  <2> QED BY <1>1, <1>2, <1>3, <2>1, <2>2, PointerAssumption
<1>5. \A y \in Text : y \in Forgotten' <=> y \in Forgotten
  <2> SUFFICES ASSUME NEW y \in Text PROVE y \in Forgotten' <=> y \in Forgotten
    OBVIOUS
  <2>1. y = pointer[m] => y \in Held
    BY <1>1 DEF Held
  <2> QED BY <1>1, <1>4, <2>1 DEF Forgotten
<1>6. Forgotten \subseteq Text /\ Forgotten' \subseteq Text
  BY <1>1 DEF TypeOK, Forgotten
<1> QED BY <1>5, <1>6

LEMMA NextForgets ==
  ASSUME IInv, Next, Forgotten' # Forgotten
  PROVE  \E t \in running : /\ ExitLibrary(t)
                            /\ Forgotten' \ Forgotten \subseteq {slot(u) : u \in running \ {t}}
<1>1. TypeOK /\ TextsAreOwned /\ InHand
  BY DEF IInv
<1>2. \A t \in Thread : pc[t] # "text" => pointer[<<t, "text">>] = NULL
  BY <1>1 DEF InHand
<1>3. ~InitLibrary
  <2> SUFFICES ASSUME InitLibrary PROVE FALSE
    OBVIOUS
  <2>1. \A p \in Thread \X Place : pointer'[p] = NULL
    BY DEF InitLibrary
  <2>2. \A u \in Thread : pc[u] = "user"
    BY <1>1 DEF InitLibrary, InHand
  <2>3. \A u \in Thread, p \in Place : pointer[<<u, p>>] = NULL
    BY <1>1, <2>2 DEF InitLibrary, InHand, slot, Place
  <2>4. Held' = Held /\ live' = live
    BY <2>1, <2>3 DEF InitLibrary, Held
  <2> QED BY <2>4 DEF Forgotten
<1>4. ASSUME NEW t \in Thread PROVE ~EndThread(t) /\ ~ParseBegins(t)
  BY <1>1, <1>2, SetErrorForgetsNothing, PointerAssumption DEF EndThread, ParseBegins, Goes
<1>5. ASSUME NEW t \in Thread PROVE ~CallBegins(t) /\ ~Return(t)
  BY DEF CallBegins, Return, Forgotten, Held
<1>6. ASSUME NEW t \in Thread PROVE ~OutOfMemory(t) /\ ~NoMessage(t) /\ ~NoText(t)
  BY <1>1, <1>2, SetErrorForgetsNothing, PointerAssumption
     DEF OutOfMemory, NoMessage, NoText, Goes, Error
<1>7. ASSUME NEW t \in Thread PROVE ~ShowText(t)
  <2>1. pointer[<<t, "text">>] \in Error \cup {NULL}
    BY <1>1 DEF TypeOK, Place
  <2> QED BY <1>1, <2>1, SetErrorForgetsNothing DEF ShowText, text
<1>8. ASSUME NEW t \in Thread PROVE ~FormatMessage(t) /\ ~FormatText(t)
  <2>1. pc[t] = "called" => pointer[<<t, "message">>] = NULL
    BY <1>1 DEF InHand
  <2> QED BY <1>1, <1>2, <2>1, AllocateForgetsNothing DEF FormatMessage, FormatText, Goes, Place
<1>9. ASSUME NEW t \in Thread PROVE ~FreeMessage(t)
  BY <1>1, FreeMessageForgetsNothing
<1>10. PICK t \in Thread : ExitLibrary(t)
  BY <1>3, <1>4, <1>5, <1>6, <1>7, <1>8, <1>9 DEF Next, Errorf
<1>11. t \in running
  BY <1>10 DEF ExitLibrary
<1>12. ASSUME NEW y \in Forgotten', y \notin Forgotten
       PROVE  y \in {slot(u) : u \in running \ {t}}
  <2>1. y \in live /\ y # slot(t)
    BY <1>10, <1>12 DEF ExitLibrary, Forgotten
  <2>2. y \in Text
    BY <1>1, <2>1 DEF TypeOK
  <2>3. PICK u \in Thread, p \in Place : pointer[<<u, p>>] = y
    BY <1>12, <2>1 DEF Forgotten, Held
  <2>4. pc[u] = "user"
    BY <1>10 DEF ExitLibrary, Idle
  <2>5. p = "slot"
    BY <1>1, <2>2, <2>3, <2>4, PointerAssumption DEF InHand, Place
  <2>6. u \in running /\ u # t
    BY <1>1, <2>1, <2>2, <2>3, <2>5, PointerAssumption DEF InHand, slot
  <2> QED BY <2>3, <2>5, <2>6 DEF slot
<1> QED BY <1>10, <1>11, <1>12

\* The text of an error is forgotten only by json_exit, and then only that of
\* another thread that still runs: neither a call that fails at any step, nor
\* the end of a thread, nor json_init loses one.
THEOREM OnlyExitLosesTexts == Spec => OnlyExitForgets
<1>1. IInv /\ [Next]_vars =>
        [Forgotten' # Forgotten =>
           \E t \in running : /\ ExitLibrary(t)
                              /\ Forgotten' \ Forgotten \subseteq {slot(u) : u \in running \ {t}}]_vars
  BY NextForgets
<1> QED BY <1>1, SpecIInv, PTL DEF Spec, OnlyExitForgets
=============================================================================
