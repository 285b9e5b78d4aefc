SPECIFICATION Spec
CONSTANTS
  Configs <- MCYaml
  Segments <- MCSegments
  NoWebhook = NoWebhook
  MaxStarts = 1
INVARIANT WebhookWorks
