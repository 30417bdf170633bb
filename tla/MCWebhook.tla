----------------------------- MODULE MCWebhook -----------------------------
(***************************************************************************)
(* Small instances of Webhook for TLC.                                     *)
(***************************************************************************)
EXTENDS Webhook, TLC

CONSTANTS hola, holaAgain, saludo, agendar, boton, foto, lista,
          entregado, bloqueado, leido, t1, t2, r1, r2

Shape(type, text, cta) == [type |-> type, text |-> text, cta |-> cta]

\* The messages: a text sent twice, three calls to action, a button, a file
\* and a list reply.
ShapeOf(m) ==
    CASE m \in {hola, holaAgain} -> Shape("text", t1, None)
      [] m = saludo  -> Shape("button", t2, "greeting")
      [] m = agendar -> Shape("text", t2, "agendar")
      [] m = boton   -> Shape("button", t2, None)
      [] m = foto    -> Shape("media", None, None)
      [] m = lista   -> Shape("list", None, None)
      [] OTHER       -> Shape("text", None, None)

TypeOfShape == [m \in Messages |-> ShapeOf(m).type]
TextOfShape == [m \in Messages |-> ShapeOf(m).text]
CtaOfShape == [m \in Messages |-> ShapeOf(m).cta]

TimeOfMessage ==
    [m \in Messages |-> CASE m = hola -> 1 [] m = holaAgain -> 2
                          [] m = saludo -> 3 [] m = agendar -> 4
                          [] m = boton -> 5 [] m = foto -> 6
                          [] m = lista -> 7 [] OTHER -> 8]

StatusByName ==
    [s \in Statuses |-> CASE s = entregado -> "delivered"
                          [] s = bloqueado -> "ecosystem"
                          [] OTHER -> "other"]

\* A payload of everything.
MixedPayloads ==
    {<<saludo, agendar, foto, boton, lista, entregado, leido, bloqueado>>}
TwoTexts == {<<hola>>, <<holaAgain>>}
=============================================================================
