---------------------------- MODULE SpeechAnswers ----------------------------
(***************************************************************************)
(* A spoken answer: the recording is written to a temporary file, sent to  *)
(* a remote transcription service, measured and checked                    *)
(* (services/whisper_stt_service.py); the client then posts it as an       *)
(* answer, or patches an answer with it (mvp_views.py): both routes check  *)
(* it again.  The nested route (views.py, InterviewAnswerSaveView) inserts *)
(* or replaces a text whatever its length.  All three ask the guardrail    *)
(* (services/guardrails.py), and then store; a question has one answer, by *)
(* the UNIQUE key.  Times are in tenths of a second.  The events a         *)
(* guardrail records decide nothing and are left out, and so are questions *)
(* and sessions of others.                                                 *)
(***************************************************************************)
EXTENDS Integers, Lists

CONSTANTS Speaker,      \* requests
          Recordings,   \* what is uploaded: [type, size, heard], heard being the words it holds
          Typed,        \* texts a client writes itself: [words, chars, action], action being
                        \* what the guardrail says of it
          Asked,        \* the questions of a session
          Fillers,      \* FILLER_WORDS
          MaxAudio,     \* MAX_AUDIO_BYTES, in the unit of size
          MaxFiles      \* bound: temporary files

\* A word that was heard, and when.
TimedWord == [word : STRING, start : Nat, end : Nat]

ASSUME SpeechAssumption == MaxAudio \in Nat /\ MaxFiles \in Nat
ASSUME RecordingsAssumption == \A r \in Recordings : r.heard.timed \in Seq(TimedWord)

VARIABLES
  speaker,    \* where a request is
  recording,  \* what it uploads
  tempFiles,  \* the temporary files there are
  ownFile,    \* the one of a request
  filesMade,  \* files so far
  abandoned,  \* history: the files of requests that were killed or could not write them
  heard,      \* history: the transcripts handed out
  sending,    \* the answer a request has checked and not stored yet
  answers,    \* rows InterviewAnswer: [question, text, speech], and whether the text was checked
  refused     \* history: texts that were refused as too short

fileVars == <<recording, tempFiles, ownFile, filesMade, abandoned, heard>>
answerVars == <<sending, answers, refused>>
speechVars == <<speaker, fileVars, answerVars>>

MinChars == 5
MinWords == 2
MinSpeech == 10
MinPause == 5
LongPause == 30

SpeechInit ==
  /\ speaker = [c \in Speaker |-> "idle"]
  /\ recording \in [Speaker -> Recordings]
  /\ ownFile = [c \in Speaker |-> 0]
  /\ tempFiles = {} /\ filesMade = 0 /\ abandoned = {} /\ heard = {}
  /\ sending = [c \in Speaker |-> {}] /\ answers = {} /\ refused = {}

SpeakerGoes(c, to) == speaker' = [speaker EXCEPT ![c] = to]

-----------------------------------------------------------------------------
(* Measures *)

AtLeast(a, b) == IF a > b THEN a ELSE b

\* build_stt_stats: the gap after a word, none after the last one.
Gap(words, i) == IF i = Len(words) THEN 0 ELSE AtLeast(0, words[i + 1].start - words[i].end)

Pauses(words) == { i \in DOMAIN words : i < Len(words) /\ Gap(words, i) >= MinPause }

Stats(words) ==
  [speech |-> Total([ i \in DOMAIN words |-> AtLeast(0, words[i].end - words[i].start) ]),
   paused |-> Total([ i \in DOMAIN words |-> IF i \in Pauses(words) THEN Gap(words, i) ELSE 0 ]),
   pauses |-> Cardinality(Pauses(words)),
   long |-> Cardinality({ i \in Pauses(words) : Gap(words, i) >= LongPause }),
   fillers |-> Cardinality({ i \in DOMAIN words : words[i].word \in Fillers }),
   first |-> words[1].start]

\* validate_stt_answer_quality, for the words of a text and how long it was spoken; -1 when
\* the client does not say.
Reasons(text, speech) ==
  { r \in {"empty", "short", "few words", "short speech"} :
      \/ r = "empty" /\ text.words = 0
      \/ r = "short" /\ text.chars < MinChars
      \/ r = "few words" /\ text.words < MinWords
      \/ r = "short speech" /\ speech # -1 /\ speech < MinSpeech }

Answerable(text, speech) == Reasons(text, speech) = {}

-----------------------------------------------------------------------------
(* Transcription *)

\* validate_uploaded_audio
UploadRefused(r) == r.type # "webm" \/ r.size = 0 \/ r.size > MaxAudio

\* write_upload_to_tempfile: the file is made before it is filled.
OpenFile(c) ==
  /\ speaker[c] = "idle" /\ ~UploadRefused(recording[c]) /\ filesMade < MaxFiles
  /\ filesMade' = filesMade + 1
  /\ tempFiles' = tempFiles \cup {filesMade + 1}
  /\ ownFile' = [ownFile EXCEPT ![c] = filesMade + 1]
  /\ SpeakerGoes(c, "write")
  /\ UNCHANGED <<recording, abandoned, heard, answerVars>>

WriteFile(c) ==
  /\ speaker[c] = "write"
  /\ SpeakerGoes(c, "call")
  /\ UNCHANGED <<fileVars, answerVars>>

\* The disk is full, or the worker is killed: nothing removes the file.
LeaveFile(c) ==
  /\ speaker[c] \in {"write", "call"}
  /\ abandoned' = abandoned \cup {ownFile[c]}
  /\ SpeakerGoes(c, "idle")
  /\ UNCHANGED <<recording, tempFiles, ownFile, filesMade, heard, answerVars>>

\* As if the file were only removed after a transcription.
RemovedOnSuccess(c, done) == IF done THEN tempFiles \ {ownFile[c]} ELSE tempFiles

\* The finally clause of transcribe_uploaded_audio.
Removed(c, done) == tempFiles \ {ownFile[c]}

\* The service fails or times out, or what it heard has no words with times or is too
\* short: the client is told to record again.
NotTranscribed(c) ==
  /\ speaker[c] = "call"
  /\ tempFiles' = Removed(c, FALSE)
  /\ SpeakerGoes(c, "idle")
  /\ UNCHANGED <<recording, ownFile, filesMade, abandoned, heard, answerVars>>

Transcribe(c) ==
  LET r == recording[c].heard
      stats == Stats(r.timed)
  IN  /\ speaker[c] = "call" /\ r.timed # <<>>
      /\ Answerable(r.text, stats.speech)
      /\ tempFiles' = Removed(c, TRUE)
      /\ heard' = heard \cup {[text |-> r.text, timed |-> r.timed, stats |-> stats]}
      /\ SpeakerGoes(c, "idle")
      /\ UNCHANGED <<recording, ownFile, filesMade, abandoned, answerVars>>

-----------------------------------------------------------------------------
(* Answers *)

\* GuardrailResult.should_block: warnings, hints and what an administrator should look at
\* are let through.
Blocked(text) == text.action \in {"BLOCK_INPUT", "END_SESSION"}

\* A client sends a transcript, with its duration or without, or a text of its own.
Sendable(text, speech) ==
  \/ \E t \in heard : text = t.text /\ speech \in {-1, t.stats.speech}
  \/ text \in Typed /\ speech = -1

Unanswered(q) == \A a \in answers : a.question # q

\* As if there were no UNIQUE key.
AnyRoom(q) == TRUE

\* What the UNIQUE key asks of an insert.
Vacant(q) == Unanswered(q)

\* The serializer refuses a poor text; what it lets through, the handler goes on to store
\* unless it has an objection of its own.
Check(c, route, row, speech, objection) ==
  /\ speaker[c] = "idle" /\ Sendable(row.text, speech)
  /\ refused' = IF Answerable(row.text, speech) THEN refused ELSE refused \cup {row.text}
  /\ IF Answerable(row.text, speech) /\ ~objection
     THEN SpeakerGoes(c, route) /\ sending' = [sending EXCEPT ![c] = row]
     ELSE UNCHANGED <<speaker, sending>>
  /\ UNCHANGED <<fileVars, answers>>

\* MVPAnswerCreateView and create_answer, up to the insert.
PostAnswer(c, q, text, speech) ==
  Check(c, "post", [question |-> q, text |-> text, speech |-> speech, checked |-> TRUE], speech,
        ~Unanswered(q) \/ Blocked(text))

\* The PATCH of an answer, up to its save: a duration that is not sent stays as it was read.
PatchAnswer(c, a, text, speech) ==
  Check(c, "patch",
        [question |-> a.question, text |-> text, speech |-> IF speech = -1 THEN a.speech ELSE speech,
         checked |-> TRUE],
        speech, Blocked(text))

\* InterviewAnswerSaveView: only an empty text is refused.
SaveAnswer(c, q, text) ==
  /\ speaker[c] = "idle" /\ text.words # 0 /\ ~Blocked(text)
  /\ SpeakerGoes(c, "save")
  /\ sending' = [sending EXCEPT ![c] = [question |-> q, text |-> text, speech |-> -1, checked |-> FALSE]]
  /\ UNCHANGED <<fileVars, answers, refused>>

Stored(c, rows) ==
  /\ answers' = rows
  /\ SpeakerGoes(c, "idle")
  /\ sending' = [sending EXCEPT ![c] = {}]
  /\ UNCHANGED <<fileVars, refused>>

\* The insert; it fails when another request has answered the question since.
StorePosted(c) ==
  /\ speaker[c] = "post"
  /\ Stored(c, IF Vacant(sending[c].question) THEN answers \cup {sending[c]} ELSE answers)

StorePatched(c) ==
  /\ speaker[c] = "patch"
  /\ Stored(c, { a \in answers : a.question # sending[c].question } \cup {sending[c]})

\* update_or_create, which locks the row: what it does not name stays as it is by now.
StoreSaved(c) ==
  LET q == sending[c].question
  IN  /\ speaker[c] = "save"
      /\ Stored(c, IF Unanswered(q) THEN answers \cup {sending[c]}
                   ELSE { IF a.question = q THEN [sending[c] EXCEPT !.speech = a.speech] ELSE a : a \in answers })

\* The worker is killed before it stores.
NotStored(c) == speaker[c] \in {"post", "patch", "save"} /\ Stored(c, answers)

TextsAtHand == { t.text : t \in heard } \cup Typed

SpeechNext ==
  \/ \E c \in Speaker :
       \/ OpenFile(c) \/ WriteFile(c) \/ LeaveFile(c) \/ NotTranscribed(c) \/ Transcribe(c)
       \/ StorePosted(c) \/ StorePatched(c) \/ StoreSaved(c) \/ NotStored(c)
  \/ \E c \in Speaker, q \in Asked, text \in TextsAtHand : SaveAnswer(c, q, text)
  \/ \E c \in Speaker, text \in TextsAtHand, n \in {-1} \cup { t.stats.speech : t \in heard } :
       \/ \E q \in Asked : PostAnswer(c, q, text, n)
       \/ \E a \in answers : PatchAnswer(c, a, text, n)

SpeechSpec == SpeechInit /\ [][SpeechNext]_speechVars

-----------------------------------------------------------------------------
(* Properties *)

\* The words of a transcript are in order and do not overlap.
InSequence(words) ==
  /\ \A i \in DOMAIN words : words[i].start <= words[i].end
  /\ \A i \in 1 .. Len(words) - 1 : words[i].end <= words[i + 1].start

\* No recording outlives its request unless the request was killed or could not write it
\* (whisper_stt_service.py:92).  What was accepted when it was heard is never refused as
\* too short later, though the guardrail may refuse it, or the question may have been
\* answered.  However requests of the three routes overlap, a question has one answer, and
\* none has a text that the guardrail blocks, or a duration that is too short, one kept from
\* an earlier text included; a text that is too short is one the nested route stored.
\* Speech and pauses fit into the time the words took.
TranscriptsFit ==
  /\ \A f \in tempFiles :
       f \in abandoned \/ \E c \in Speaker : ownFile[c] = f /\ speaker[c] \in {"write", "call"}
  /\ \A t \in heard : t.text \notin refused
  /\ \A a, b \in answers : a.question = b.question => a = b
  /\ \A a \in answers :
       /\ ~Blocked(a.text)
       /\ Reasons(a.text, a.speech) \subseteq IF a.checked THEN {} ELSE {"short", "few words"}
  /\ \A t \in heard :
       LET last == t.timed[Len(t.timed)]
       IN  InSequence(t.timed) => t.stats.speech + t.stats.paused <= last.end - t.stats.first
=============================================================================
