--------------------------- MODULE MCVoiceSession ---------------------------
(* TLC instance of VoiceSession. *)
EXTENDS VoiceSession

\* One turn, with whatever the recognisers hear.
FirstTurn == [surface |-> Shell, phrase |-> "wake", woken |-> {"blank", "wake", "speech"},
              partials |-> {"speech", "wakeSpeech"}, commands |-> Spoken, turns |-> 1,
              mishaps |-> {}]
\* One turn that begins with the wake phrase, and something goes wrong.
FirstMishap == [FirstTurn EXCEPT !.woken = {"wake"}, !.partials = {"speech"},
                                 !.commands = {"speech"}, !.mishaps = Mishap]
\* Two turns that overlap, of the shell service and of the overlay.
Overlapping == [FirstTurn EXCEPT !.woken = {"blank"}, !.partials = {},
                                 !.commands = {"speech", "wake"}, !.turns = 2]
OnOverlay == [Overlapping EXCEPT !.surface = Overlay, !.commands = {"speech"}]
OverlayMishap == [OnOverlay EXCEPT !.turns = 1, !.mishaps = Mishap]
\* Two turns with a lost post or a failing plan.
Troubled == [Overlapping EXCEPT !.commands = {"speech"}, !.mishaps = {"lost", "raised"}]
\* The wake phrase of the shell is none of the backend's.
OtherPhrase == [Overlapping EXCEPT !.phrase = "speech", !.commands = {"wakeSpeech"}]

MCScenes == {FirstTurn, FirstMishap, Overlapping, OnOverlay, OverlayMishap, Troubled,
             OtherPhrase}
=============================================================================
